---- MODULE Spec2Model ----
(***************************************************************************)
(* Model of the fcs-v0 HTTP API: the casts-search-weighted pipeline in its *)
(* current form (app/api/endpoints/casts.py) and in its legacy form        *)
(* (main.py), the graph/relational/document store wrappers (app/db) and    *)
(* the single-query endpoints.  One action per request handler; a handler  *)
(* runs to completion and leaves its response in `resp` and the store      *)
(* operations it issued in `trace`.                                        *)
(*                                                                         *)
(* Encoding of Python values: integers stand for themselves, None is -1,   *)
(* the empty string "" (used as a timestamp default) is 0, and str(x) of   *)
(* an integer or None is x + StrTag, so that 1 and "1" are different       *)
(* values.  Floats are exact fractions <<numerator, denominator>>.         *)
(***************************************************************************)
EXTENDS Integers, Sequences, FiniteSets, TLC

\* ------------------------------------------------------------------ bounds
MaxHits == 2          \* most casts the sources deliver to one request
MaxOver == 2          \* how far the usage counter may run past the limit
MaxPages == 2         \* most pages the search API is asked for in one request
MaxRows == 1          \* most rows a single-query endpoint gets back
MaxRequests == 2      \* most allowlist requests that are counted

\* ------------------------------------------------------- program constants
UsageLimit == 250     \* casts.py:85
MaxRetries == 5       \* postgres.py:89
StrTag == 1000
None == -1
EmptyStr == 0

Str(x) == x + StrTag

\* Python truthiness of an optional integer / string value
Truthy(x) == x # None /\ x # 0 /\ x # EmptyStr

\* ------------------------------------------------------------ value domains
Hashes == {1, 2}
Stamps == {1, 2}
AuthorFids == {None, 1, 3}
ScenarioFids == 21..30

\* the Warpcast accounts of the graph store: fid -> fcCredScore.  Account 2
\* has no score (null); the scenario accounts 21..30 have mean score 2.
\* Fid 3 is an author without an account node.
AccountFids == {1, 2} \cup ScenarioFids
CredOf(f) ==
    IF f = 2 THEN None
    ELSE IF f \in 22..29 THEN (IF f % 2 = 0 THEN 0 ELSE 4)
    ELSE 2

\* documents of the `casts` collection as the text index returns them
\* (the cast with hash 1 is by account 1)
Docs == {d \in [hash : Hashes, timestamp : Stamps \cup {None}, authorFid : AuthorFids] :
            d.hash = 1 => d.authorFid = 1}

RECURSIVE SeqsUpTo(_, _)
SeqsUpTo(S, n) ==
    IF n = 0 THEN {<<>>}
    ELSE LET shorter == SeqsUpTo(S, n - 1)
         IN  shorter \cup {Append(s, x) : s \in {t \in shorter : Len(t) = n - 1}, x \in S}

\* ten documents with distinct hashes, by ten authors or by one
ScenarioDocs(distinct) ==
    [i \in 1..10 |-> [hash |-> 100 + i, timestamp |-> 1,
                      authorFid |-> IF distinct THEN 20 + i ELSE 21]]

DocSeqs == SeqsUpTo(Docs, MaxHits) \cup {ScenarioDocs(TRUE), ScenarioDocs(FALSE)}

\* ---------------------------------------------------------------- fractions
RECURSIVE GCD(_, _)
GCD(a, b) == IF b = 0 THEN a ELSE GCD(b, a % b)

Frac(n, d) == LET g == GCD(n, d) IN IF n = 0 THEN <<0, 1>> ELSE <<n \div g, d \div g>>
FMul(x, y) == Frac(x[1] * y[1], x[2] * y[2])
\* n / d of the language: ZeroDivisionError for d = 0
ZeroDivisionError == <<0, 0>>
Div(n, d) == IF d = 0 THEN ZeroDivisionError ELSE Frac(n, d)
FLeq(x, y) == x[1] * y[2] <= y[1] * x[2]
FMin(x, y) == IF FLeq(x, y) THEN x ELSE y

RECURSIVE SumSeq(_)
SumSeq(s) == IF s = <<>> THEN 0 ELSE Head(s) + SumSeq(Tail(s))

Max(a, b) == IF a >= b THEN a ELSE b

\* ----------------------------------------------------------------- state
VARIABLES
    neo4j_driver,     \* app/db/neo4j.py global: TRUE when a driver is set
    async_db,         \* app/db/mongo.py global: TRUE when a database is set
    sql_utils,        \* app/db/postgres.py global: TRUE when SQLUtils is set
    fidIsStr,         \* graph store: wc.fid is stored as a string
    queryCounter,     \* graph store: ApiUsage.queryCounter
    requestCount,     \* graph store: _Allowlist.requestCount
    resp,             \* the response of the request just handled
    trace,            \* store operations issued by that request, in order
    hits,             \* the records that request built from its sources'
                      \* hits, in the order it took them up
    query,            \* the user_query handed to clean_query_for_lucene
    clean_query,      \* what the latest call of clean_query_for_lucene returned
    cleanings,        \* how often the query has been through it
    pending,          \* requests of the casts handler that are under way:
                      \* where each stands and what its usage query did
    attempt,          \* the call of SQLUtils.execute_query that is under way
    table,            \* leaderboards.<name>: the snapshots, oldest first, each
                      \* the fids of its rows in rank order
    verifications,    \* neynar.verifications: rows of fid and address
    lb,               \* the get_leaderboard request under way
    promo,            \* the key-promoters request under way
    reactions,        \* what the attention and the influence query find for
                      \* the user, in the order the database returns it
    conn,             \* the farcaster-connections request under way
    paging,           \* the search-API paging loop of the legacy handler
    TRADING_ENABLED,  \* trading_bot.py: the setting read at start
    token_positions,  \* address -> the entry of the open position
    blacklisted_tokens,
    cycle             \* where the trading cycle stands

vars == <<neo4j_driver, async_db, sql_utils, fidIsStr, queryCounter, requestCount, resp, trace,
          hits, query, clean_query, cleanings, pending, attempt, table, verifications, lb, promo,
          reactions, conn, paging,
          TRADING_ENABLED, token_positions, blacklisted_tokens, cycle>>

handles == <<neo4j_driver, async_db, sql_utils, fidIsStr>>

sanitizer == <<query, clean_query, cleanings>>

\* state the request handlers of the app never touch
leaderboard == <<table, verifications, lb>>
connections == <<reactions, conn>>
trading == <<TRADING_ENABLED, token_positions, blacklisted_tokens, cycle>>
aside == <<attempt, leaderboard, promo, connections, paging, trading>>

\* what the steps of one component leave alone
app == <<handles, queryCounter, requestCount, resp, hits, sanitizer, pending>>
beside_retry == <<leaderboard, promo, connections, paging, trading>>
beside_leaderboard == <<attempt, promo, connections, paging, trading>>
beside_promoters == <<attempt, leaderboard, connections, paging, trading>>
beside_connections == <<attempt, leaderboard, promo, paging, trading>>
beside_paging == <<attempt, leaderboard, promo, connections, trading>>
beside_trading == <<attempt, leaderboard, promo, connections, paging>>

NoResp == [handler |-> "none"]

\* one store operation: which store, which query, did it succeed
Op(store, q, ok) == [store |-> store, q |-> q, ok |-> ok]


\* ------------------------------------------------------- app/db wrappers
\* execute_cypher of app/db/neo4j.py.  `ok` and `rows` are what the graph
\* store would do with the query; the wrapper never raises.
execute_cypher(q, ok, rows) ==
    IF ~neo4j_driver THEN [rows |-> <<>>, ops |-> <<>>, raised |-> FALSE]
    ELSE IF ok THEN [rows |-> rows, ops |-> <<Op("neo4j", q, TRUE)>>, raised |-> FALSE]
    ELSE [rows |-> <<>>, ops |-> <<Op("neo4j", q, FALSE)>>, raised |-> FALSE]

\* search_mongo_casts of app/db/mongo.py: no guard around the aggregate call
search_mongo_casts(ok, docs, limit) ==
    IF ~async_db THEN [rows |-> <<>>, ops |-> <<>>, raised |-> FALSE]
    ELSE IF ok THEN [rows |-> SubSeq(docs, 1, IF Len(docs) < limit THEN Len(docs) ELSE limit),
                     ops |-> <<Op("mongo", "search", TRUE)>>, raised |-> FALSE]
    ELSE [rows |-> <<>>, ops |-> <<Op("mongo", "search", FALSE)>>, raised |-> TRUE]

\* search_casts without its try/except
search_casts_NoGuard(kind, docs, limit) ==
    IF kind = "unbound" THEN [rows |-> <<>>, ops |-> <<>>, raised |-> TRUE]
    ELSE search_mongo_casts(kind = "ok", docs, limit)

\* search_casts of casts.py.  kind = "unbound": casts.py as it stands, which
\* does not import the name search_mongo_casts, so that the call raises
\* NameError inside the try.  kind = "error" and kind = "ok": the call with
\* the name bound to search_mongo_casts of app/db/mongo.py, failing or not.
search_casts(kind, docs, limit) ==
    IF kind = "unbound" THEN [rows |-> <<>>, ops |-> <<>>, raised |-> FALSE]
    ELSE LET r == search_mongo_casts(kind = "ok", docs, limit)
         IN  IF r.raised THEN [rows |-> <<>>, ops |-> r.ops, raised |-> FALSE]
             ELSE r

SearchKinds == {"unbound", "error", "ok"}

\* insertion that puts a record before the records of its own timestamp
RECURSIVE InsertDesc_BeforeEqual(_, _)
InsertDesc_BeforeEqual(sorted, x) ==
    IF sorted = <<>> THEN <<x>>
    ELSE IF Head(sorted).timestamp > x.timestamp
         THEN <<Head(sorted)>> \o InsertDesc_BeforeEqual(Tail(sorted), x)
         ELSE <<x>> \o sorted

\* ------------------------------------------------------------- the scorer
\* list.sort(key=timestamp, reverse=True): stable, descending
RECURSIVE InsertDesc(_, _)
InsertDesc(sorted, x) ==
    IF sorted = <<>> THEN <<x>>
    ELSE IF Head(sorted).timestamp >= x.timestamp
         THEN <<Head(sorted)>> \o InsertDesc(Tail(sorted), x)
         ELSE <<x>> \o sorted

RECURSIVE SortDesc(_)
SortDesc(s) ==
    IF s = <<>> THEN <<>>
    ELSE InsertDesc(SortDesc(SubSeq(s, 1, Len(s) - 1)), s[Len(s)])

\* comparing None with anything raises TypeError
SortRaises(s) == Len(s) >= 2 /\ \E i \in 1..Len(s) : s[i].timestamp = None

cred_scores(casts) ==
    LET idx == {i \in 1..Len(casts) : casts[i].cred # None}
    IN  [n \in 1..Cardinality(idx) |->
            casts[CHOOSE i \in idx : Cardinality({j \in idx : j < i}) = n - 1].cred]

unique_authors(casts) ==
    {casts[i].author_fid : i \in {j \in 1..Len(casts) : Truthy(casts[j].author_fid)}}

\* Metrics without the diversity penalty
Metrics_NoPenalty(casts) ==
    LET casts_count == Len(casts)
        scores == cred_scores(casts)
        avg_cred_score == IF Len(scores) > 0 THEN Div(SumSeq(scores), Len(scores))
                          ELSE <<0, 1>>
        ua == Cardinality(unique_authors(casts))
        ratio == Div(ua, Max(1, casts_count))
        diversity_multiplier == FMin(<<1, 1>>, ratio)
        raw_weighted_score == FMul(<<casts_count, 1>>, avg_cred_score)
    IN  [casts |-> casts_count,
         uniqueAuthors |-> ua,
         rawWeightedScore |-> raw_weighted_score,
         diversityMultiplier |-> diversity_multiplier,
         weighted_score |-> raw_weighted_score,
         raised |-> ZeroDivisionError \in {avg_cred_score, ratio}]

\* Metrics with a missing score averaged in as 0
Metrics_MissingAsZero(casts) ==
    LET casts_count == Len(casts)
        scores == cred_scores(casts)
        avg_cred_score == IF Len(scores) > 0 THEN Div(SumSeq(scores), casts_count)
                          ELSE <<0, 1>>
        ua == Cardinality(unique_authors(casts))
        ratio == Div(ua, Max(1, casts_count))
        diversity_multiplier == FMin(<<1, 1>>, ratio)
        raw_weighted_score == FMul(<<casts_count, 1>>, avg_cred_score)
    IN  [casts |-> casts_count,
         uniqueAuthors |-> ua,
         rawWeightedScore |-> raw_weighted_score,
         diversityMultiplier |-> diversity_multiplier,
         weighted_score |-> FMul(raw_weighted_score, diversity_multiplier),
         raised |-> ZeroDivisionError \in {avg_cred_score, ratio}]

\* Metrics dividing by the numbers of scores and of casts as they are
Metrics_NoGuard(casts) ==
    LET casts_count == Len(casts)
        scores == cred_scores(casts)
        avg_cred_score == Div(SumSeq(scores), Len(scores))
        ua == Cardinality(unique_authors(casts))
        ratio == Div(ua, casts_count)
        diversity_multiplier == FMin(<<1, 1>>, ratio)
        raw_weighted_score == FMul(<<casts_count, 1>>, avg_cred_score)
    IN  [casts |-> casts_count,
         uniqueAuthors |-> ua,
         rawWeightedScore |-> raw_weighted_score,
         diversityMultiplier |-> diversity_multiplier,
         weighted_score |-> FMul(raw_weighted_score, diversity_multiplier),
         raised |-> ZeroDivisionError \in {avg_cred_score, ratio}]

\* the metrics block of fetch_weighted_casts
Metrics(casts) ==
    LET casts_count == Len(casts)
        scores == cred_scores(casts)
        avg_cred_score == IF Len(scores) > 0 THEN Div(SumSeq(scores), Len(scores))
                          ELSE <<0, 1>>
        ua == Cardinality(unique_authors(casts))
        ratio == Div(ua, Max(1, casts_count))
        diversity_multiplier == FMin(<<1, 1>>, ratio)
        raw_weighted_score == FMul(<<casts_count, 1>>, avg_cred_score)
    IN  [casts |-> casts_count,
         uniqueAuthors |-> ua,
         rawWeightedScore |-> raw_weighted_score,
         diversityMultiplier |-> diversity_multiplier,
         weighted_score |-> FMul(raw_weighted_score, diversity_multiplier),
         raised |-> ZeroDivisionError \in {avg_cred_score, ratio}]

NoMetrics == [casts |-> 0, uniqueAuthors |-> 0, rawWeightedScore |-> <<0, 1>>,
              diversityMultiplier |-> <<0, 1>>, weighted_score |-> <<0, 1>>, raised |-> FALSE]

\* ------------------------------------------------------------- responses
Response(h, key_ok, status) ==
    [handler |-> h, key_ok |-> key_ok, status |-> status,
     casts |-> <<>>, total |-> 0, metrics |-> NoMetrics, rows |-> 0, failed |-> FALSE]

\* ------------------------------------- casts.py: casts-search-weighted
\* fid of an account as the graph store holds and returns it
StoredFid(f) == IF fidIsStr THEN Str(f) ELSE f

\* tointeger() of the query language
ToInteger(v) == IF v >= StrTag THEN v - StrTag ELSE v

\* the rows of fid_enrichment_query for the parameter $fids:
\* WHERE tointeger(wc.fid) IN $fids, the query language equating no integer
\* with a string
ProfileRows(fids) ==
    LET hit == {f \in AccountFids : ToInteger(StoredFid(f)) \in fids}
    IN  [f \in hit |-> [fid |-> StoredFid(f), fcCredScore |-> CredOf(f)]]

\* the stored counter when the server starts: one request short of the limit
CounterAtStart == UsageLimit - 1

\* the SET writing one more than a counter value read before another
\* request's SET: a lost update
UsageCounterAfter_LostUpdate(r) ==
    IF r.ops # <<>> /\ r.ops[1].ok THEN CounterAtStart + 1 ELSE queryCounter

\* the usage counter with a reset once the limit is passed
UsageCounterAfter_Reset(r) ==
    IF r.ops # <<>> /\ r.ops[1].ok
    THEN (IF queryCounter > UsageLimit THEN CounterAtStart ELSE queryCounter + 1)
    ELSE queryCounter

\* the usage check shared by both forms of the handler: the SET of the
\* usage query takes effect when the query succeeds.  Reading and writing
\* the counter is one statement, run inside one blocking call
UsageCounterAfter(r) == IF r.ops # <<>> /\ r.ops[1].ok THEN queryCounter + 1 ELSE queryCounter

mongo_casts(results) ==
    [i \in 1..Len(results) |->
        [hash |-> results[i].hash,
         timestamp |-> IF Truthy(results[i].timestamp) THEN results[i].timestamp ELSE EmptyStr,
         author_fid |-> results[i].authorFid]]

enrich_mongo_casts(mcasts, fid_enrichment_map) ==
    [i \in 1..Len(mcasts) |->
        LET fid == Str(mcasts[i].author_fid)
            found == fid \in DOMAIN fid_enrichment_map
        IN  [hash |-> mcasts[i].hash,
             timestamp |-> mcasts[i].timestamp,
             author_fid |-> mcasts[i].author_fid,
             cred |-> IF found THEN fid_enrichment_map[fid] ELSE None,
             source |-> IF found THEN "mongo_enriched" ELSE "mongo_raw"]]

\* the enrichment lookup issuing its query once for every fid
lookup_profiles_PerFid(all_fids, test_ok, enrich_ok) ==
    LET test == execute_cypher("test", test_ok, <<1>>)
        enrich == execute_cypher("fid_enrichment", enrich_ok, <<ProfileRows(all_fids)>>)
        RECURSIVE Times(_)
        Times(n) == IF n = 0 THEN <<>> ELSE enrich.ops \o Times(n - 1)
    IN  IF all_fids = {} THEN [records |-> << >>, ops |-> <<>>]
        ELSE [records |-> IF enrich.rows # <<>> THEN enrich.rows[1] ELSE << >>,
              ops |-> test.ops \o Times(Cardinality(all_fids))]

\* the enrichment lookup of fetch_weighted_casts: when there is a fid to
\* look up, a connection test and then one query for all the fids
lookup_profiles(all_fids, test_ok, enrich_ok) ==
    LET test == execute_cypher("test", test_ok, <<1>>)
        enrich == execute_cypher("fid_enrichment", enrich_ok, <<ProfileRows(all_fids)>>)
    IN  IF all_fids = {} THEN [records |-> << >>, ops |-> <<>>]
        ELSE [records |-> IF enrich.rows # <<>> THEN enrich.rows[1] ELSE << >>,
              ops |-> test.ops \o enrich.ops]

\* fetch_weighted_casts from `await search_casts` on: search, enrichment,
\* sort and metrics
search_and_score(key_ok, usage_ops, counter, kind, docs, test_ok, enrich_ok) ==
    LET found == search_casts(kind, docs, 100)
        mcasts == mongo_casts(found.rows)
        all_fids == {Str(mcasts[i].author_fid) :
                        i \in {j \in 1..Len(mcasts) : Truthy(mcasts[j].author_fid)}}
        lookup == lookup_profiles(all_fids, test_ok, enrich_ok)
        lookups == lookup.ops
        records == lookup.records
        keys == {records[f].fid : f \in {g \in DOMAIN records : Truthy(records[g].fid)}}
        fid_enrichment_map ==
            [k \in keys |-> records[CHOOSE f \in DOMAIN records : records[f].fid = k].fcCredScore]
        enriched == enrich_mongo_casts(mcasts, fid_enrichment_map)
        combined_casts == SortDesc(enriched)
        metrics == Metrics(combined_casts)
        raises == SortRaises(enriched) \/ metrics.raised
        tr == usage_ops \o found.ops \o lookups
    IN  IF found.raised
        THEN \* an exception out of search_casts would reach `except Exception`
             [resp |-> Response("casts", key_ok, 500), trace |-> usage_ops \o found.ops,
              counter |-> counter, hits |-> <<>>]
        ELSE IF raises
        THEN [resp |-> Response("casts", key_ok, 500), trace |-> tr, counter |-> counter,
              hits |-> enriched]
        ELSE [resp |-> [Response("casts", key_ok, 200) EXCEPT
                           !.casts = combined_casts,
                           !.total = Len(combined_casts),
                           !.metrics = metrics],
              trace |-> tr, counter |-> counter, hits |-> enriched]

fetch_weighted_casts(key_ok, usage_ok, kind, docs, test_ok, enrich_ok) ==
    IF ~key_ok
    THEN [resp |-> Response("casts", key_ok, 401), trace |-> <<>>, counter |-> queryCounter,
          hits |-> <<>>]
    ELSE
    LET usage == execute_cypher("usage", usage_ok, <<queryCounter + 1>>)
        counter == UsageCounterAfter(usage)
    IN  IF usage.rows # <<>> /\ usage.rows[1] > UsageLimit
        THEN \* HTTPException(429) is raised inside the try and caught by
             \* `except Exception`, which raises HTTPException(500)
             [resp |-> Response("casts", key_ok, 500), trace |-> usage.ops, counter |-> counter,
              hits |-> <<>>]
        ELSE search_and_score(key_ok, usage.ops, counter, kind, docs, test_ok, enrich_ok)

\* --------------------------------- main.py: legacy casts-search-weighted
\* execute_cypher of main.py: no guard, a missing driver or a failing
\* query raises
legacy_execute_cypher(q, ok, rows) ==
    IF ~neo4j_driver THEN [rows |-> <<>>, ops |-> <<>>, raised |-> TRUE]
    ELSE IF ok THEN [rows |-> rows, ops |-> <<Op("neo4j", q, TRUE)>>, raised |-> FALSE]
    ELSE [rows |-> <<>>, ops |-> <<Op("neo4j", q, FALSE)>>, raised |-> TRUE]

\* Cast nodes of the graph store; a hash fixes the author and the timestamp
GraphCastHashes == {1, 2, 3}
CastAuthor(h) == IF h = 3 THEN 2 ELSE 1
CastStamp(h) == IF h = 1 THEN 1 ELSE 2
CastRow(h) == [hash |-> h, timestamp |-> CastStamp(h), fid |-> CastAuthor(h)]

\* rows of the full-text query: casts with their author's profile joined;
\* the query has no DISTINCT over hashes, a cast may come back twice
Neo4jRows == {CastRow(h) : h \in GraphCastHashes}

\* ten rows with distinct hashes, by ten authors or by one
ScenarioRows(distinct) ==
    [i \in 1..10 |-> [hash |-> 100 + i, timestamp |-> 1,
                      fid |-> IF distinct THEN 20 + i ELSE 21]]

Neo4jRowSeqs == SeqsUpTo(Neo4jRows, MaxHits) \cup {ScenarioRows(TRUE), ScenarioRows(FALSE)}

neo4j_cast(row, source) ==
    [hash |-> row.hash, timestamp |-> row.timestamp, author_fid |-> StoredFid(row.fid),
     cred |-> CredOf(row.fid), source |-> source]

\* the search API: a page is an exception, a non-200 status, or casts with
\* an optional nextCursor
Cutoff == 1                      \* "2025-03-31T00:00:00Z"

\* casts the search API knows: hash 1 is also a Cast node of the graph
\* store, hash 4 is by an author with an account node, hash 5 by one without
NeynarHashes == {1, 4, 5}
NeynarAuthor(h) == IF h = 5 THEN 3 ELSE 1
NeynarCasts ==
    {[hash |-> h, timestamp |-> t, author_fid |-> NeynarAuthor(h)] :
        h \in NeynarHashes, t \in Stamps \cup {None}}
NeynarPages(k) ==
    {[kind |-> "exception", casts |-> <<>>, nextCursor |-> None],
     [kind |-> "status", casts |-> <<>>, nextCursor |-> None]}
    \cup [kind : {"ok"}, casts : SeqsUpTo(NeynarCasts, k), nextCursor : {None, 7}]

\* the for loop over a page's casts that looks for one at or before the
\* cutoff: "stop" when found, "raise" when a timestamp is None (TypeError),
\* "go" otherwise
RECURSIVE CutoffScan(_)
CutoffScan(casts) ==
    IF casts = <<>> THEN "go"
    ELSE IF Head(casts).timestamp = None THEN "raise"
    ELSE IF Head(casts).timestamp <= Cutoff THEN "stop"
    ELSE CutoffScan(Tail(casts))

\* the while keep_going loop; pages[i] is the answer to the i-th call
RECURSIVE NeynarLoop(_, _, _)
NeynarLoop(pages, i, acc) ==
    IF i > Len(pages) THEN [casts |-> acc, calls |-> i - 1, running |-> TRUE]
    ELSE LET p == pages[i]
         IN  IF p.kind = "exception" THEN [casts |-> acc, calls |-> i, running |-> FALSE]
             ELSE IF p.kind = "status" THEN [casts |-> acc, calls |-> i, running |-> FALSE]
             ELSE LET got == acc \o p.casts
                      scan == CutoffScan(p.casts)
                  IN  IF scan # "go" THEN [casts |-> got, calls |-> i, running |-> FALSE]
                      ELSE IF ~Truthy(p.nextCursor)
                           THEN [casts |-> got, calls |-> i, running |-> FALSE]
                           ELSE NeynarLoop(pages, i + 1, got)

\* paging on as long as there is a cursor
Continues_WhileCursor(p) == p.kind = "ok" /\ Truthy(p.nextCursor)

\* the loop asks for another page after page p
Continues(p) == NeynarLoop(<<p>>, 1, <<>>).running

\* the answers of the search API to one request: at most n pages, every one
\* of them asked for, holding at most k casts between them
RECURSIVE PageSeqsWithin(_, _)
PageSeqsWithin(n, k) ==
    IF n = 0 THEN {}
    ELSE {<<p>> : p \in {x \in NeynarPages(k) : ~Continues(x)}}
         \cup UNION {{<<p>> \o s : s \in PageSeqsWithin(n - 1, k - Len(p.casts))} :
                        p \in {x \in NeynarPages(k) : Continues(x)}}

\* by the number of casts the search API may still deliver
PageSeqs == [k \in 0..MaxHits |-> PageSeqsWithin(MaxPages, k)]

\* rows of the direct enrichment: the Cast nodes among the hashes, by hash
RECURSIVE DirectRows(_)
DirectRows(hashes) ==
    LET found == GraphCastHashes \cap hashes
    IN  IF found = {} THEN <<>>
        ELSE LET h == CHOOSE x \in found : \A y \in found : x <= y
             IN  <<CastRow(h)>> \o DirectRows(found \ {h})

RECURSIVE AddNew(_, _)
\* append the casts of `more` whose hash is not yet present, in order
AddNew(have, more) ==
    IF more = <<>> THEN have
    ELSE IF Head(more).hash \in {have[i].hash : i \in 1..Len(have)}
         THEN AddNew(have, Tail(more))
         ELSE AddNew(Append(have, Head(more)), Tail(more))

\* the rows of enrichment_query for the parameter $fids: WHERE wc.fid IN $fids
legacy_ProfileRows(fids) ==
    LET hit == {f \in AccountFids : StoredFid(f) \in fids}
    IN  [f \in hit |-> [fid |-> StoredFid(f), fcCredScore |-> CredOf(f)]]

\* fid enrichment giving an author without a profile the score 0
fid_enrich_remaining_ZeroDefault(remaining, fid_enrichment_map) ==
    [i \in 1..Len(remaining) |->
        LET fid == remaining[i].author_fid
            found == Truthy(fid) /\ fid \in DOMAIN fid_enrichment_map
        IN  [hash |-> remaining[i].hash,
             timestamp |-> remaining[i].timestamp,
             author_fid |-> fid,
             cred |-> IF found THEN fid_enrichment_map[fid] ELSE 0,
             source |-> IF found THEN "neynar_fid_enriched" ELSE "neynar_raw"]]

\* the per-cast step of the fid enrichment: profile fields for an author id
\* found in the map, the defaults and the raw tag otherwise
fid_enrich_remaining(remaining, fid_enrichment_map) ==
    [i \in 1..Len(remaining) |->
        LET fid == remaining[i].author_fid
            found == Truthy(fid) /\ fid \in DOMAIN fid_enrichment_map
        IN  [hash |-> remaining[i].hash,
             timestamp |-> remaining[i].timestamp,
             author_fid |-> fid,
             cred |-> IF found THEN fid_enrichment_map[fid] ELSE None,
             source |-> IF found THEN "neynar_fid_enriched" ELSE "neynar_raw"]]

\* the search-API stage: the casts collected and the calls made
legacy_search_neynar(has_key, pages) ==
    LET loop == IF has_key THEN NeynarLoop(pages, 1, <<>>)
                ELSE [casts |-> <<>>, calls |-> 0, running |-> FALSE]
    IN  [casts |-> loop.casts,
         ops |-> [i \in 1..loop.calls |-> Op("neynar", i, pages[i].kind = "ok")]]

\* direct enrichment: the search-API casts that are Cast nodes of the graph
legacy_enrich_by_hash(neynar_casts, direct_ok) ==
    LET neynar_hashes == {neynar_casts[i].hash : i \in 1..Len(neynar_casts)}
        direct == legacy_execute_cypher("cast_enrichment", direct_ok, DirectRows(neynar_hashes))
        direct_enriched_casts ==
            IF neynar_hashes # {}
            THEN [i \in 1..Len(direct.rows) |-> neo4j_cast(direct.rows[i], "neo4j_direct")]
            ELSE <<>>
        directly_enriched_hashes ==
            {direct_enriched_casts[i].hash : i \in 1..Len(direct_enriched_casts)}
        NotDirect(c) == c.hash \notin directly_enriched_hashes
    IN  [casts |-> direct_enriched_casts,
         remaining |-> SelectSeq(neynar_casts, NotDirect),
         ops |-> IF neynar_hashes # {} THEN direct.ops ELSE <<>>,
         raised |-> neynar_hashes # {} /\ direct.raised]

\* fid enrichment of the casts the direct enrichment did not find
legacy_enrich_by_fid(remaining_neynar_casts, enrich_ok) ==
    LET withFid == {j \in 1..Len(remaining_neynar_casts) :
                       Truthy(remaining_neynar_casts[j].author_fid)}
        remaining_fids == {Str(remaining_neynar_casts[i].author_fid) : i \in withFid}
        enrich == legacy_execute_cypher("fid_enrichment", enrich_ok,
                                        <<legacy_ProfileRows(remaining_fids)>>)
        records == IF enrich.rows # <<>> THEN enrich.rows[1] ELSE << >>
        keys == {records[f].fid : f \in {g \in DOMAIN records : Truthy(records[g].fid)}}
        fid_enrichment_map ==
            [k \in keys |-> records[CHOOSE f \in DOMAIN records : records[f].fid = k].fcCredScore]
    IN  IF remaining_fids = {}
        THEN [casts |-> <<>>, ops |-> <<>>, raised |-> FALSE]
        ELSE [casts |-> fid_enrich_remaining(remaining_neynar_casts, fid_enrichment_map),
              ops |-> enrich.ops,
              raised |-> enrich.raised]

\* the stages after the usage check
legacy_pipeline(key_ok, search_ok, rows, has_key, pages, direct_ok, enrich_ok) ==
    LET search == legacy_execute_cypher("fulltext", search_ok, rows)
        neo4j_casts == [i \in 1..Len(search.rows) |-> neo4j_cast(search.rows[i], "neo4j_search")]
        neynar == legacy_search_neynar(has_key, pages)
        byHash == legacy_enrich_by_hash(neynar.casts, direct_ok)
        byFid == legacy_enrich_by_fid(byHash.remaining, enrich_ok)
        merged == AddNew(AddNew(neo4j_casts, byHash.casts), byFid.casts)
        taken == neo4j_casts \o byHash.casts \o byFid.casts
        combined_casts == SortDesc(merged)
        metrics == Metrics(combined_casts)
    IN  IF search.raised
        THEN [resp |-> Response("legacy_casts", key_ok, 500), trace |-> search.ops,
              hits |-> <<>>]
        ELSE IF byHash.raised
        THEN [resp |-> Response("legacy_casts", key_ok, 500),
              trace |-> search.ops \o neynar.ops \o byHash.ops, hits |-> <<>>]
        ELSE IF byFid.raised \/ SortRaises(merged) \/ metrics.raised
        THEN [resp |-> Response("legacy_casts", key_ok, 500),
              trace |-> search.ops \o neynar.ops \o byHash.ops \o byFid.ops,
              hits |-> IF byFid.raised THEN <<>> ELSE taken]
        ELSE [resp |-> [Response("legacy_casts", key_ok, 200) EXCEPT
                           !.casts = combined_casts,
                           !.total = Len(combined_casts),
                           !.metrics = metrics],
              trace |-> search.ops \o neynar.ops \o byHash.ops \o byFid.ops,
              hits |-> taken]

legacy_fetch_weighted_casts(key_ok, usage_ok, search_ok, rows, has_key, pages, direct_ok, enrich_ok) ==
    IF ~key_ok
    THEN [resp |-> Response("legacy_casts", key_ok, 401), trace |-> <<>>, counter |-> queryCounter,
          hits |-> <<>>]
    ELSE
    LET usage == legacy_execute_cypher("usage", usage_ok, <<queryCounter + 1>>)
        counter == UsageCounterAfter(usage)
    IN  IF usage.raised \/ (usage.rows # <<>> /\ usage.rows[1] > UsageLimit)
        THEN \* an error of the usage query and HTTPException(429) both end in
             \* `except Exception`, which raises HTTPException(500)
             [resp |-> Response("legacy_casts", key_ok, 500), trace |-> usage.ops,
              counter |-> counter, hits |-> <<>>]
        ELSE
        LET out == legacy_pipeline(key_ok, search_ok, rows, has_key, pages, direct_ok, enrich_ok)
        IN  [resp |-> out.resp, trace |-> usage.ops \o out.trace, counter |-> counter,
             hits |-> out.hits]

\* ------------------------------------------------ app/db/postgres.py
\* execute_query giving up one attempt later
RECURSIVE execute_query_OneMore(_, _, _, _)
execute_query_OneMore(q, fails, rows, counter) ==
    IF counter > MaxRetries + 1
    THEN [rows |-> <<>>, ops |-> <<>>, raised |-> TRUE]
    ELSE IF counter < fails
         THEN LET r == execute_query_OneMore(q, fails, rows, counter + 1)
              IN  [rows |-> r.rows, ops |-> <<Op("postgres", q, FALSE)>> \o r.ops,
                   raised |-> r.raised]
         ELSE [rows |-> rows, ops |-> <<Op("postgres", q, TRUE)>>, raised |-> FALSE]

\* SQLUtils.execute_query: the first `fails` attempts fail, the next one
\* returns `rows`; each failed attempt calls itself with counter + 1
RECURSIVE execute_query(_, _, _, _)
execute_query(q, fails, rows, counter) ==
    IF counter > MaxRetries
    THEN [rows |-> <<>>, ops |-> <<>>, raised |-> TRUE]
    ELSE IF counter < fails
         THEN LET r == execute_query(q, fails, rows, counter + 1)
              IN  [rows |-> r.rows, ops |-> <<Op("postgres", q, FALSE)>> \o r.ops,
                   raised |-> r.raised]
         ELSE [rows |-> rows, ops |-> <<Op("postgres", q, TRUE)>>, raised |-> FALSE]

execute_postgres_query(q, fails, rows) ==
    IF ~sql_utils THEN [rows |-> <<>>, ops |-> <<>>, raised |-> FALSE]
    ELSE LET r == execute_query(q, fails, rows, 0)
         IN  IF r.raised THEN [rows |-> <<>>, ops |-> r.ops, raised |-> FALSE] ELSE r

FailCounts == 0..(MaxRetries + 1)

\* SQLUtils.execute_query call by call.  `counter > self.max_retries`
GivesUp_OneLater(counter) == counter > MaxRetries + 1
GivesUp(counter) == counter > MaxRetries

PostgresQueries == {"loans", "mutuals", "mutuals_ranked"}
NoAttempt == [state |-> "idle", q |-> "none", counter |-> 0, n |-> 0, result |-> <<>>]

\* leaderboard.py: no request under way, nothing stored
NoLeaderboardRequest ==
    [pc |-> "idle", mode |-> "none", max_timestamp |-> None, status |-> 0,
     data |-> <<>>, run_timestamp |-> None, run_timestamps |-> <<>>, calls |-> 0]

\* miniapps.py: no request under way
NoPromotersRequest ==
    [pc |-> "idle", status |-> 0, casts |-> <<>>, enrichment |-> <<>>, promoters |-> <<>>]

\* farcaster_connections.py: no request under way, nothing found
NoConnectionsRequest ==
    [pc |-> "idle", status |-> 0, categories |-> <<>>, keys |-> {},
     attention |-> <<>>, influence |-> <<>>, mutuals |-> <<>>]
NoReactions == [attention |-> <<>>, influence |-> <<>>]

\* main.py: the paging loop before `while keep_going`
NoPaging == [pc |-> "idle", keep_going |-> FALSE, neynar_call_count |-> 0, pages |-> <<>>]

\* trading_bot.py: the bot not started, no state file
NoCycle ==
    [pc |-> "idle", to_manage |-> <<>>, trending_tokens |-> <<>>,
     last |-> [address |-> "none", did |-> "none"]]
BotNotStarted ==
    /\ TRADING_ENABLED = FALSE
    /\ token_positions = <<>>
    /\ blacklisted_tokens = {}
    /\ cycle = NoCycle

NoneAside ==
    /\ BotNotStarted
    /\ paging = NoPaging
    /\ reactions = NoReactions
    /\ conn = NoConnectionsRequest
    /\ promo = NoPromotersRequest
    /\ attempt = NoAttempt
    /\ table = <<>>
    /\ verifications = <<>>
    /\ lb = NoLeaderboardRequest

\* ------------------------------------------------ single-query endpoints
\* result rows are opaque here: a result is a sequence of n row tokens
Rows(n) == [i \in 1..n |-> i]
RowCounts == 0..MaxRows

\* the store was asked and did not answer: client missing or query failed
CypherFailed(ok) == ~neo4j_driver \/ ~ok
PostgresFailed(fails) == ~sql_utils \/ fails > MaxRetries

Reply(h, key_ok, status, r, failed) ==
    [resp |-> [Response(h, key_ok, status) EXCEPT !.rows = Len(r.rows), !.failed = failed],
     trace |-> r.ops]
Reject(h, key_ok, status) == [resp |-> Response(h, key_ok, status), trace |-> <<>>]

\* reputation.py: the 404 is raised inside `try` and `except Exception`
\* turns every exception, HTTPException included, into a 500
get_user_reputation_by_get(key_ok, ok, n) ==
    IF ~key_ok THEN Reject("reputation_get", key_ok, 401)
    ELSE LET r == execute_cypher("reputation", ok, Rows(n))
         IN  IF r.rows = <<>> THEN Reply("reputation_get", key_ok, 500, r, CypherFailed(ok))
             ELSE Reply("reputation_get", key_ok, 200, r, CypherFailed(ok))

get_user_reputation_by_post(key_ok, ok, n) ==
    IF ~key_ok THEN Reject("reputation_post", key_ok, 401)
    ELSE LET r == execute_cypher("reputation", ok, Rows(n))
         IN  IF r.rows = <<>> THEN Reply("reputation_post", key_ok, 500, r, CypherFailed(ok))
             ELSE Reply("reputation_post", key_ok, 200, r, CypherFailed(ok))

\* tokens.py
retrieve_token_believer_scores(key_ok, ok, n) ==
    IF ~key_ok THEN Reject("token_believer_score", key_ok, 401)
    ELSE LET r == execute_cypher("tokens", ok, Rows(n))
         IN  IF r.rows = <<>> THEN Reply("token_believer_score", key_ok, 500, r, CypherFailed(ok))
             ELSE Reply("token_believer_score", key_ok, 200, r, CypherFailed(ok))

\* no credential is read: BelieversDataRequest has no api_key field
get_token_top_believers(key_ok, ok, n) ==
    LET r == execute_cypher("believers", ok, Rows(n))
    IN  IF r.rows = <<>> THEN Reply("token_top_believers", key_ok, 500, r, CypherFailed(ok))
        ELSE Reply("token_top_believers", key_ok, 200, r, CypherFailed(ok))

\* wallet_lookup.py: `except HTTPException: raise` keeps the 404
get_wallets_for_username(key_ok, platform_ok, ok, n, check_ok, user_found) ==
    IF ~key_ok THEN Reject("wallet_lookup", key_ok, 401)
    ELSE IF ~platform_ok THEN Reject("wallet_lookup", key_ok, 400)
    ELSE LET r == execute_cypher("wallets", ok, Rows(n))
             c == execute_cypher("user_check", check_ok, Rows(IF user_found THEN 1 ELSE 0))
             both == [rows |-> c.rows, ops |-> r.ops \o c.ops, raised |-> FALSE]
         IN  IF r.rows = <<>>
             THEN IF c.rows = <<>>
                  THEN Reply("wallet_lookup", key_ok, 404, both,
                             CypherFailed(ok) \/ CypherFailed(check_ok))
                  ELSE [Reply("wallet_lookup", key_ok, 200, both, CypherFailed(ok))
                           EXCEPT !.resp.rows = 0]
             ELSE Reply("wallet_lookup", key_ok, 200, r, CypherFailed(ok))

\* clankers.py
get_holds_tokens(key_ok, ok, n) ==
    IF ~key_ok THEN Reject("holds_clankers", key_ok, 401)
    ELSE LET r == execute_cypher("holdings", ok, Rows(n))
         IN  IF r.rows = <<>> THEN Reply("holds_clankers", key_ok, 404, r, CypherFailed(ok))
             ELSE Reply("holds_clankers", key_ok, 200, r, CypherFailed(ok))

\* loan_history.py
get_loan_history(key_ok, has_fids, fails, n) ==
    IF ~key_ok THEN Reject("loan_history", key_ok, 401)
    ELSE IF ~has_fids THEN Reject("loan_history", key_ok, 400)
    ELSE LET r == execute_postgres_query("loans", fails, Rows(n))
         IN  Reply("loan_history", key_ok, 200, r, PostgresFailed(fails))

\* farcaster_users.py
get_mutual_followers(key_ok, fails, n) ==
    IF ~key_ok THEN Reject("mutual_followers", key_ok, 401)
    ELSE LET r == execute_postgres_query("mutuals", fails, Rows(n))
         IN  Reply("mutual_followers", key_ok, 200, r, PostgresFailed(fails))

\* farcaster_connections_all.py
get_all_mutuals_ranked(key_ok, fails, n) ==
    IF ~key_ok THEN Reject("mutuals_ranked", key_ok, 401)
    ELSE LET r == execute_postgres_query("mutuals_ranked", fails, Rows(n))
         IN  IF r.rows = <<>> THEN Reply("mutuals_ranked", key_ok, 404, r, PostgresFailed(fails))
             ELSE Reply("mutuals_ranked", key_ok, 200, r, PostgresFailed(fails))

\* allowlist.py: no credential is read (AllowlistCheckRequest has no key
\* field, the "Validate API key" comment is followed by no code).  The
\* increment query writes requestCount when the allowlist exists.
check_allowlist_eligibility(key_ok, inc_ok, exists, mode, q_ok, n) ==
    LET inc == execute_cypher("increment", inc_ok,
                              IF exists THEN <<requestCount + 1>> ELSE <<>>)
        count == IF inc.rows # <<>> THEN requestCount + 1 ELSE requestCount
        failed1 == CypherFailed(inc_ok)
    IN  IF inc.rows = <<>>
        THEN Reply("allowlist", key_ok, 404, inc, failed1) @@ [count |-> count]
        ELSE LET r == execute_cypher(mode, q_ok, Rows(n))
                 both == [rows |-> r.rows, ops |-> inc.ops \o r.ops, raised |-> FALSE]
                 failed == failed1 \/ CypherFailed(q_ok)
             IN  IF mode = "check" /\ r.rows = <<>>
                 THEN Reply("allowlist", key_ok, 404, both, failed) @@ [count |-> count]
                 ELSE Reply("allowlist", key_ok, 200, both, failed) @@ [count |-> count]

\* ------------------------------ app/utils/helpers.py: the query sanitizer
\* a Python str is the sequence of its characters; a user_query is a str
\* or None
StrQuery(chars) == [type |-> "str", chars |-> chars]
NoneQuery == [type |-> "NoneType", chars |-> <<>>]

special_chars == <<"/", "\\", "+", "-", "&", "|", "!", "(", ")", "{", "}", "[", "]",
                   "^", "~", "*", "?", ":", "\"">>

\* characters str.split() takes for separators
Whitespace == {" ", "\t", "\n"}

\* str.replace(char, ' ')
Replace(s, char) == [i \in 1..Len(s) |-> IF s[i] = char THEN " " ELSE s[i]]

\* for char in special_chars: cleaned_query = cleaned_query.replace(char, ' ')
RECURSIVE ReplaceEach(_, _)
ReplaceEach(s, chars) ==
    IF chars = <<>> THEN s ELSE ReplaceEach(Replace(s, Head(chars)), Tail(chars))

\* str.split(): the maximal runs of characters that are not whitespace
RECURSIVE Split(_, _)
Split(s, word) ==
    IF s = <<>> THEN (IF word = <<>> THEN <<>> ELSE <<word>>)
    ELSE IF Head(s) \in Whitespace
         THEN (IF word = <<>> THEN <<>> ELSE <<word>>) \o Split(Tail(s), <<>>)
         ELSE Split(Tail(s), Append(word, Head(s)))

\* ' '.join(words)
RECURSIVE Join(_)
Join(words) ==
    IF words = <<>> THEN <<>>
    ELSE IF Len(words) = 1 THEN words[1]
    ELSE words[1] \o <<" ">> \o Join(Tail(words))

\* the sanitizer without ' '.join(cleaned_query.split())
clean_query_for_lucene_NoCollapse(user_query) ==
    IF user_query.type = "NoneType" \/ user_query.chars = <<>> THEN <<>>
    ELSE ReplaceEach(user_query.chars, special_chars)

\* the sanitizer with "$" among its special characters
clean_query_for_lucene_WithDollar(user_query) ==
    IF user_query.type = "NoneType" \/ user_query.chars = <<>> THEN <<>>
    ELSE Join(Split(ReplaceEach(user_query.chars, <<"$">> \o special_chars), <<>>))

\* the sanitizer collapsing before it replaces
clean_query_for_lucene_CollapseFirst(user_query) ==
    IF user_query.type = "NoneType" \/ user_query.chars = <<>> THEN <<>>
    ELSE ReplaceEach(Join(Split(user_query.chars, <<>>)), special_chars)

clean_query_for_lucene(user_query) ==
    IF user_query.type = "NoneType" \/ user_query.chars = <<>> THEN <<>>
    ELSE Join(Split(ReplaceEach(user_query.chars, special_chars), <<>>))

\* queries: every string up to MaxLen over a few characters of each kind,
\* every special character alone and between two letters, and the query
\* of scenario A
MaxLen == 4
CoreAlphabet == {"a", "$", " ", "\t", "+", "\""}
Alphabet == {special_chars[i] : i \in 1..Len(special_chars)} \cup Whitespace \cup {"a", "b", "$"}
ScenarioA == <<"$", "T", "O", "K", "E", "N", " ", "+", "b", "u", "l", "l", "i", "s", "h", "!">>
Queries ==
    {NoneQuery}
    \cup {StrQuery(chars) : chars \in SeqsUpTo(CoreAlphabet, MaxLen)}
    \cup {StrQuery(<<c>>) : c \in Alphabet}
    \cup {StrQuery(<<"a", c, "b">>) : c \in Alphabet}
    \cup {StrQuery(ScenarioA)}

\* no request has had its query cleaned
NothingCleaned == query = StrQuery(<<>>) /\ clean_query = <<>> /\ cleanings = 0

\* ------------------------------------ requests of the casts handler in flight
\* two clients; a request is "new" until its handler starts, "awaiting"
\* while the handler waits in `await search_casts`, "rejected" when the
\* usage check raised, and "done" once answered
Requests == {1, 2}
MaxAwaitedHits == 1         \* most hits a search delivers to a request in flight
NewRequest == [pc |-> "new", ops |-> <<>>, counted |-> FALSE]
NonePending == pending = [r \in Requests |-> NewRequest]

\* fetch_weighted_casts up to `await search_casts`, for an authenticated
\* request: the usage query and the check of the counter it returns.  The
\* handler is a coroutine and execute_cypher a blocking call, so nothing
\* else runs on the server until the handler reaches the await
begin_fetch_weighted_casts(usage_ok) ==
    LET usage == execute_cypher("usage", usage_ok, <<queryCounter + 1>>)
        counter == UsageCounterAfter(usage)
        exceeded == usage.rows # <<>> /\ usage.rows[1] > UsageLimit
    IN  [pending |-> [pc |-> IF exceeded THEN "rejected" ELSE "awaiting",
                      ops |-> usage.ops,
                      counted |-> usage.rows # <<>>],
         counter |-> counter]

\* ------------------------------------------------------------ actions
Idle == resp = NoResp

\* an input is drawn from its full set only where the handler reads it
Only(cond, S, dflt) == IF cond THEN S ELSE {dflt}

\* some document names an author
HasAuthor(docs) == \E i \in 1..Len(docs) : Truthy(docs[i].authorFid)

CastsSearchWeighted ==
    /\ Idle
    /\ queryCounter < UsageLimit + MaxOver
    /\ \E key_ok \in BOOLEAN :
       \E usage_ok \in Only(key_ok /\ neo4j_driver, BOOLEAN, TRUE) :
       \E kind \in Only(key_ok, SearchKinds, "unbound") :
       \E docs \in Only(kind = "ok" /\ async_db, DocSeqs, <<>>) :
       \E test_ok \in Only(HasAuthor(docs) /\ neo4j_driver, BOOLEAN, TRUE) :
       \E enrich_ok \in Only(HasAuthor(docs) /\ neo4j_driver, BOOLEAN, TRUE) :
          LET out == fetch_weighted_casts(key_ok, usage_ok, kind, docs, test_ok, enrich_ok)
          IN  /\ resp' = out.resp
              /\ trace' = out.trace
              /\ hits' = out.hits
              /\ queryCounter' = out.counter
    /\ UNCHANGED <<handles, requestCount, sanitizer, pending, aside>>

LegacyCastsSearchWeighted ==
    /\ Idle
    /\ queryCounter < UsageLimit + MaxOver
    /\ \E key_ok \in BOOLEAN :
       \E usage_ok \in Only(key_ok /\ neo4j_driver, BOOLEAN, TRUE) :
       \E search_ok \in Only(key_ok /\ neo4j_driver /\ usage_ok, BOOLEAN, FALSE) :
       \E rows \in Only(search_ok, Neo4jRowSeqs, <<>>) :
       \E has_key \in Only(search_ok, BOOLEAN, FALSE) :
       \E pages \in Only(has_key, PageSeqs[Max(0, MaxHits - Len(rows))], <<>>) :
       \E direct_ok \in Only(has_key, BOOLEAN, TRUE) :
       \E enrich_ok \in Only(has_key /\ direct_ok, BOOLEAN, TRUE) :
          LET out == legacy_fetch_weighted_casts(key_ok, usage_ok, search_ok, rows,
                                                 has_key, pages, direct_ok, enrich_ok)
          IN  /\ resp' = out.resp
              /\ trace' = out.trace
              /\ hits' = out.hits
              /\ queryCounter' = out.counter
    /\ UNCHANGED <<handles, requestCount, sanitizer, pending, aside>>

\* a handler that touches neither counter
Handle(out) ==
    /\ resp' = out.resp
    /\ trace' = out.trace
    /\ hits' = <<>>
    /\ UNCHANGED <<handles, queryCounter, requestCount, sanitizer, pending, aside>>

CypherOks(key_ok) == Only(key_ok /\ neo4j_driver, BOOLEAN, TRUE)
CountsIf(cond) == Only(cond, RowCounts, 0)
FailsIf(cond) == Only(cond /\ sql_utils, FailCounts, 0)

UserReputationGet ==
    /\ Idle
    /\ \E key_ok \in BOOLEAN : \E ok \in CypherOks(key_ok) : \E n \in CountsIf(key_ok /\ ok) :
          Handle(get_user_reputation_by_get(key_ok, ok, n))

UserReputationPost ==
    /\ Idle
    /\ \E key_ok \in BOOLEAN : \E ok \in CypherOks(key_ok) : \E n \in CountsIf(key_ok /\ ok) :
          Handle(get_user_reputation_by_post(key_ok, ok, n))

TokenBelieverScore ==
    /\ Idle
    /\ \E key_ok \in BOOLEAN : \E ok \in CypherOks(key_ok) : \E n \in CountsIf(key_ok /\ ok) :
          Handle(retrieve_token_believer_scores(key_ok, ok, n))

TokenTopBelievers ==
    /\ Idle
    /\ \E key_ok \in BOOLEAN : \E ok \in CypherOks(TRUE) : \E n \in CountsIf(ok) :
          Handle(get_token_top_believers(key_ok, ok, n))

WalletLookup ==
    /\ Idle
    /\ \E key_ok \in BOOLEAN : \E platform_ok \in Only(key_ok, BOOLEAN, TRUE) :
       \E ok \in CypherOks(key_ok /\ platform_ok) : \E n \in CountsIf(key_ok /\ platform_ok /\ ok) :
       \E check_ok \in CypherOks(key_ok /\ platform_ok /\ n = 0) :
       \E user_found \in Only(key_ok /\ platform_ok /\ n = 0 /\ check_ok, BOOLEAN, FALSE) :
          Handle(get_wallets_for_username(key_ok, platform_ok, ok, n, check_ok, user_found))

HoldsClankers ==
    /\ Idle
    /\ \E key_ok \in BOOLEAN : \E ok \in CypherOks(key_ok) : \E n \in CountsIf(key_ok /\ ok) :
          Handle(get_holds_tokens(key_ok, ok, n))

LoanHistory ==
    /\ Idle
    /\ \E key_ok \in BOOLEAN : \E has_fids \in Only(key_ok, BOOLEAN, TRUE) :
       \E fails \in FailsIf(key_ok /\ has_fids) : \E n \in CountsIf(key_ok /\ has_fids) :
          Handle(get_loan_history(key_ok, has_fids, fails, n))

MutualFollowers ==
    /\ Idle
    /\ \E key_ok \in BOOLEAN : \E fails \in FailsIf(key_ok) : \E n \in CountsIf(key_ok) :
          Handle(get_mutual_followers(key_ok, fails, n))

AllMutualsRanked ==
    /\ Idle
    /\ \E key_ok \in BOOLEAN : \E fails \in FailsIf(key_ok) : \E n \in CountsIf(key_ok) :
          Handle(get_all_mutuals_ranked(key_ok, fails, n))

AllowlistCheck ==
    /\ Idle
    /\ requestCount < MaxRequests
    /\ \E key_ok \in BOOLEAN : \E inc_ok \in CypherOks(TRUE) :
       \E exists \in Only(inc_ok, BOOLEAN, FALSE) : \E mode \in {"users", "check"} :
       \E q_ok \in CypherOks(exists) : \E n \in CountsIf(exists /\ q_ok) :
          LET out == check_allowlist_eligibility(key_ok, inc_ok, exists, mode, q_ok, n)
          IN  /\ resp' = out.resp
              /\ trace' = out.trace
              /\ hits' = <<>>
              /\ requestCount' = out.count
              /\ UNCHANGED <<handles, queryCounter, sanitizer, pending, aside>>

\* the caller receives the response; the server takes the next request
Deliver ==
    /\ ~Idle
    /\ resp' = NoResp
    /\ trace' = <<>>
    /\ hits' = <<>>
    /\ UNCHANGED <<handles, queryCounter, requestCount, sanitizer, pending, aside>>

\* the handles after start-up: each client is there or is not.  Start-up
\* itself calls init_neo4j and init_postgres only; init_mongodb is left to
\* whoever serves the casts handler.
Init ==
    /\ neo4j_driver \in BOOLEAN
    /\ async_db \in BOOLEAN
    /\ sql_utils \in BOOLEAN
    /\ fidIsStr \in BOOLEAN
    /\ queryCounter = CounterAtStart
    /\ requestCount = 0
    /\ resp = NoResp
    /\ trace = <<>>
    /\ hits = <<>>
    /\ NothingCleaned
    /\ NonePending
    /\ NoneAside

\* the handlers of app/api/endpoints.  casts.py defines its router and
\* handler, which api/router.py does not include; the handler is modelled
\* as the unit it is.
Next ==
    \/ CastsSearchWeighted
    \/ UserReputationGet
    \/ UserReputationPost
    \/ TokenBelieverScore
    \/ TokenTopBelievers
    \/ WalletLookup
    \/ HoldsClankers
    \/ LoanHistory
    \/ MutualFollowers
    \/ AllMutualsRanked
    \/ AllowlistCheck
    \/ Deliver

\* the app/ package
Spec == Init /\ [][Next]_vars

\* main.py is an application of its own, with its own driver handle and
\* neither a document store nor a relational store
InitLegacy ==
    /\ neo4j_driver \in BOOLEAN
    /\ async_db = FALSE
    /\ sql_utils = FALSE
    /\ fidIsStr \in BOOLEAN
    /\ queryCounter = CounterAtStart
    /\ requestCount = 0
    /\ resp = NoResp
    /\ trace = <<>>
    /\ hits = <<>>
    /\ NothingCleaned
    /\ NonePending
    /\ NoneAside

NextLegacy ==
    \/ LegacyCastsSearchWeighted
    \/ Deliver

SpecLegacy == InitLegacy /\ [][NextLegacy]_vars

\* step 0 of fetch_weighted_casts: clean_query = clean_query_for_lucene(request.query)
CleanQuery ==
    /\ cleanings = 0
    /\ clean_query' = clean_query_for_lucene(query)
    /\ cleanings' = 1
    /\ UNCHANGED <<handles, queryCounter, requestCount, resp, trace, hits, query, pending, aside>>

\* the cleaned query handed to the sanitizer once more
CleanAgain ==
    /\ cleanings = 1
    /\ query' = StrQuery(clean_query)
    /\ clean_query' = clean_query_for_lucene(StrQuery(clean_query))
    /\ cleanings' = 2
    /\ UNCHANGED <<handles, queryCounter, requestCount, resp, trace, hits, pending, aside>>

\* the sanitizer on its own: a query arrives, no store is involved
InitSanitizer ==
    /\ neo4j_driver = FALSE
    /\ async_db = FALSE
    /\ sql_utils = FALSE
    /\ fidIsStr = FALSE
    /\ queryCounter = CounterAtStart
    /\ requestCount = 0
    /\ resp = NoResp
    /\ trace = <<>>
    /\ hits = <<>>
    /\ query \in Queries
    /\ clean_query = <<>>
    /\ cleanings = 0
    /\ NonePending
    /\ NoneAside

NextSanitizer ==
    \/ CleanQuery
    \/ CleanAgain

SpecSanitizer == InitSanitizer /\ [][NextSanitizer]_vars

\* a handler calls execute_postgres_query: without SQLUtils it has its
\* empty list at once, otherwise execute_query is entered with counter 0
CallPostgresQuery ==
    /\ attempt.state = "idle"
    /\ \E q \in PostgresQueries : \E n \in RowCounts :
          attempt' = IF sql_utils
                     THEN [state |-> "running", q |-> q, counter |-> 0, n |-> n, result |-> <<>>]
                     ELSE [state |-> "answered", q |-> q, counter |-> 0, n |-> n, result |-> <<>>]
    /\ trace' = <<>>
    /\ UNCHANGED <<app, beside_retry>>

\* one activation of SQLUtils.execute_query: give up, or run the query;
\* a failed run enters execute_query again with counter + 1
AttemptQuery ==
    /\ attempt.state = "running"
    /\ IF GivesUp(attempt.counter)
       THEN /\ attempt' = [attempt EXCEPT !.state = "raised"]
            /\ trace' = trace
       ELSE \E ok \in BOOLEAN :
            /\ trace' = Append(trace, Op("postgres", attempt.q, ok))
            /\ attempt' = IF ok
                          THEN [attempt EXCEPT !.state = "returned", !.result = Rows(attempt.n)]
                          ELSE [attempt EXCEPT !.counter = attempt.counter + 1]
    /\ UNCHANGED <<app, beside_retry>>

\* execute_postgres_query hands the rows on, or [] for an exception
AnswerPostgresQuery ==
    /\ attempt.state \in {"returned", "raised"}
    /\ attempt' = [attempt EXCEPT !.state = "answered",
                                  !.result = IF attempt.state = "raised" THEN <<>> ELSE attempt.result]
    /\ UNCHANGED <<app, trace, beside_retry>>

\* the handler goes on; the next call can come
FinishPostgresQuery ==
    /\ attempt.state = "answered"
    /\ attempt' = NoAttempt
    /\ trace' = <<>>
    /\ UNCHANGED <<app, beside_retry>>

InitRetry ==
    /\ neo4j_driver = FALSE
    /\ async_db = FALSE
    /\ sql_utils \in BOOLEAN
    /\ fidIsStr = FALSE
    /\ queryCounter = CounterAtStart
    /\ requestCount = 0
    /\ resp = NoResp
    /\ trace = <<>>
    /\ hits = <<>>
    /\ NothingCleaned
    /\ NonePending
    /\ NoneAside

NextRetry ==
    \/ CallPostgresQuery
    \/ AttemptQuery
    \/ AnswerPostgresQuery
    \/ FinishPostgresQuery

\* execute_query and its caller are synchronous code: once entered they
\* run on
SpecRetry ==
    InitRetry /\ [][NextRetry]_vars /\ WF_vars(AttemptQuery) /\ WF_vars(AnswerPostgresQuery)

\* a request arrives and its handler runs up to the await
BeginRequest(r) ==
    /\ pending[r].pc = "new"
    /\ \E usage_ok \in Only(neo4j_driver, BOOLEAN, TRUE) :
          LET out == begin_fetch_weighted_casts(usage_ok)
          IN  /\ pending' = [pending EXCEPT ![r] = out.pending]
              /\ queryCounter' = out.counter
    /\ UNCHANGED <<handles, requestCount, resp, trace, hits, sanitizer, aside>>

\* the search returns and the handler runs to its end
FinishRequest(r) ==
    /\ Idle
    /\ pending[r].pc = "awaiting"
    /\ \E kind \in SearchKinds :
       \E docs \in Only(kind = "ok" /\ async_db, SeqsUpTo(Docs, MaxAwaitedHits), <<>>) :
       \E test_ok \in Only(HasAuthor(docs) /\ neo4j_driver, BOOLEAN, TRUE) :
       \E enrich_ok \in Only(HasAuthor(docs) /\ neo4j_driver, BOOLEAN, TRUE) :
          LET out == search_and_score(TRUE, pending[r].ops, queryCounter, kind, docs,
                                      test_ok, enrich_ok)
          IN  /\ resp' = out.resp
              /\ trace' = out.trace
              /\ hits' = out.hits
    /\ pending' = [pending EXCEPT ![r].pc = "done"]
    /\ UNCHANGED <<handles, queryCounter, requestCount, sanitizer, aside>>

\* HTTPException(429) of the usage check, answered as 500
RejectRequest(r) ==
    /\ Idle
    /\ pending[r].pc = "rejected"
    /\ resp' = Response("casts", TRUE, 500)
    /\ trace' = pending[r].ops
    /\ hits' = <<>>
    /\ pending' = [pending EXCEPT ![r].pc = "done"]
    /\ UNCHANGED <<handles, queryCounter, requestCount, sanitizer, aside>>

\* the casts handler serving two clients at once
InitConcurrent ==
    /\ neo4j_driver \in BOOLEAN
    /\ async_db \in BOOLEAN
    /\ sql_utils = FALSE
    /\ fidIsStr \in BOOLEAN
    /\ queryCounter = CounterAtStart
    /\ requestCount = 0
    /\ resp = NoResp
    /\ trace = <<>>
    /\ hits = <<>>
    /\ NothingCleaned
    /\ NonePending
    /\ NoneAside

NextConcurrent ==
    \/ \E r \in Requests : BeginRequest(r)
    \/ \E r \in Requests : FinishRequest(r)
    \/ \E r \in Requests : RejectRequest(r)
    \/ Deliver

SpecConcurrent == InitConcurrent /\ [][NextConcurrent]_vars


\* =================================================================
\* Properties
\* =================================================================
CastHandlers == {"casts", "legacy_casts"}
IsCastsOk == resp.handler \in CastHandlers /\ resp.status = 200

HashesOf(casts) == {casts[i].hash : i \in 1..Len(casts)}
NoDuplicateHash(casts) ==
    \A i, j \in 1..Len(casts) : casts[i].hash = casts[j].hash => i = j

\* C1: the casts list of a casts-search-weighted response contains each
\* content hash exactly once, whatever duplicates the sources delivered.
C1_EachHashOnce == IsCastsOk => NoDuplicateHash(resp.casts)

\* C2 (as claimed): for a non-empty record sequence weighted_score <=
\* rawWeightedScore, with equality if and only if uniqueAuthors = casts.
C2_EqualityIffAllDistinct ==
    (IsCastsOk /\ resp.metrics.casts > 0) =>
        /\ FLeq(resp.metrics.weighted_score, resp.metrics.rawWeightedScore)
        /\ (resp.metrics.weighted_score = resp.metrics.rawWeightedScore
               <=> resp.metrics.uniqueAuthors = resp.metrics.casts)

\* C2 (amended): for a non-empty record sequence weighted_score <=
\* rawWeightedScore, with equality if and only if uniqueAuthors = casts or
\* rawWeightedScore = 0.
C2_ScoreBound ==
    (IsCastsOk /\ resp.metrics.casts > 0) =>
        /\ FLeq(resp.metrics.weighted_score, resp.metrics.rawWeightedScore)
        /\ (resp.metrics.weighted_score = resp.metrics.rawWeightedScore
               <=> (\/ resp.metrics.uniqueAuthors = resp.metrics.casts
                    \/ resp.metrics.rawWeightedScore = <<0, 1>>))

\* a response with a positive raw score and a repeated author: the
\* diversity penalty applies
C2_Witness ==
    /\ IsCastsOk
    /\ resp.metrics.casts > 0
    /\ resp.metrics.uniqueAuthors < resp.metrics.casts
    /\ resp.metrics.rawWeightedScore # <<0, 1>>
    /\ resp.metrics.weighted_score # resp.metrics.rawWeightedScore

\* an all-raw response with a repeated author: both scores are 0
C2_ZeroScoreWitness ==
    /\ IsCastsOk
    /\ resp.metrics.casts > 0
    /\ resp.metrics.uniqueAuthors < resp.metrics.casts
    /\ resp.metrics.weighted_score = resp.metrics.rawWeightedScore

\* the reference scorer, computed from the returned casts
RefAuthors(casts) == {f \in {casts[i].author_fid : i \in 1..Len(casts)} : f # None}
RefPresent(casts) == {i \in 1..Len(casts) : casts[i].cred # None}
RECURSIVE RefSum(_, _)
RefSum(casts, idx) ==
    IF idx = {} THEN 0
    ELSE LET i == CHOOSE k \in idx : TRUE IN casts[i].cred + RefSum(casts, idx \ {i})

\* a / b = c / d for fractions given as pairs
FEq(x, y) == x[1] * y[2] = y[1] * x[2]

C3_DistinctWitness ==
    /\ IsCastsOk
    /\ Len(resp.casts) = 10
    /\ Cardinality(RefAuthors(resp.casts)) = 10
    /\ resp.metrics.weighted_score = <<20, 1>>


\* the usage query of the request ran and its counter is past the limit
QuotaExceeded ==
    /\ trace # <<>>
    /\ trace[1].q = "usage" /\ trace[1].ok
    /\ queryCounter > UsageLimit

\* C4: an authenticated casts-search-weighted request whose usage-counter
\* increment returns more than 250 is answered with status 429.
C4_QuotaAnswered429 ==
    (resp.handler \in CastHandlers /\ resp.key_ok /\ QuotaExceeded) => resp.status = 429

\* C5: a request with a wrong credential is rejected with 401 before any
\* store query or store write is issued, in every handler.
C5_RejectBeforeStore ==
    (resp.handler # "none" /\ ~resp.key_ok) => (resp.status = 401 /\ trace = <<>>)

ReputationTokenHandlers ==
    {"reputation_get", "reputation_post", "token_believer_score", "token_top_believers"}

\* C6: in the reputation and token endpoints a query that returns zero rows
\* is answered with status 404.
C6_NoRowsAnswered404 ==
    (resp.handler \in ReputationTokenHandlers /\ trace # <<>> /\ trace[1].ok /\ resp.rows = 0)
        => resp.status = 404

SingleQueryHandlers ==
    ReputationTokenHandlers \cup
    {"wallet_lookup", "holds_clankers", "loan_history", "mutual_followers", "mutuals_ranked"}

\* C7: in a single-query endpoint a failed store query (client not
\* initialised, connection or query error) is answered with status 500,
\* never 404 and never 200.
C7_FailureAnswered500 ==
    (resp.handler \in SingleQueryHandlers /\ resp.failed) => resp.status = 500

\* C8: an authenticated, under-quota casts-search-weighted request in which
\* a fetch or enrichment call fails is still answered with status 200.
C8_FetchFailureStillSuccess ==
    (/\ resp.handler \in CastHandlers
     /\ resp.key_ok
     /\ trace # <<>> /\ trace[1].q = "usage" /\ trace[1].ok
     /\ queryCounter <= UsageLimit
     /\ \E i \in 2..Len(trace) : ~trace[i].ok)
        => resp.status = 200

SearchFailed ==
    \/ ~async_db
    \/ \E i \in 1..Len(trace) : trace[i].store = "mongo" /\ ~trace[i].ok

\* C9: search_casts never raises; with the document-search client missing
\* or the search call failing the handler goes on with an empty sequence.
C9_SearchFailureIsEmpty ==
    (resp.handler = "casts" /\ resp.key_ok /\ ~QuotaExceeded /\ SearchFailed)
        => (resp.status = 200 /\ resp.casts = <<>> /\ resp.total = 0)

\* the handler ran its search without a document-search client
C9_Witness ==
    /\ resp.handler = "casts" /\ resp.key_ok
    /\ ~async_db
    /\ trace # <<>> /\ trace[1].q = "usage" /\ trace[1].ok /\ queryCounter <= UsageLimit
    /\ resp.status = 200 /\ resp.casts = <<>>

\* the search call was issued and failed
C9_FailedCallWitness ==
    /\ resp.handler = "casts" /\ resp.key_ok
    /\ \E i \in 1..Len(trace) : trace[i].store = "mongo" /\ ~trace[i].ok
    /\ resp.status = 200 /\ resp.casts = <<>>

SameQuery(a, b) == a.store = b.store /\ a.q = b.q

IsModernOk == resp.handler = "casts" /\ resp.status = 200

\* K: the distinct author ids among the hits of the response
AuthorIds(casts) ==
    {casts[i].author_fid : i \in {j \in 1..Len(casts) : Truthy(casts[j].author_fid)}}

IsEnrichmentCall(o) == o.store = "neo4j" /\ o.q # "usage"
EnrichmentCalls == SelectSeq(trace, IsEnrichmentCall)
QueriesOf(ops) == [i \in 1..Len(ops) |-> ops[i].q]

C11_NoAuthorWitness ==
    /\ IsModernOk /\ resp.casts # <<>> /\ AuthorIds(resp.casts) = {}
    /\ neo4j_driver /\ EnrichmentCalls = <<>>

ProfileQueryAnswered ==
    \E i \in 1..Len(trace) : trace[i].store = "neo4j" /\ trace[i].q = "fid_enrichment" /\ trace[i].ok

C12_EveryHitRaw ==
    IsModernOk =>
        \A i \in 1..Len(resp.casts) :
            resp.casts[i].source = "mongo_raw" /\ resp.casts[i].cred = None

RawTags == {"mongo_raw", "neynar_raw"}

\* C13: a hit without an entry in the enrichment map comes back tagged raw
\* with a null credibility, and a raw record is left out of the average
\* credibility: it adds nothing to the sum and does not count in the divisor.
C13_MissingProfileExcluded ==
    IsCastsOk =>
        LET c == resp.casts
            n == Len(c)
            scored == {i \in 1..n : c[i].source \notin RawTags /\ c[i].cred # None}
            k == Cardinality(scored)
            total == RefSum(c, scored)
        IN  /\ \A i \in 1..n : c[i].source \in RawTags => c[i].cred = None
            /\ FEq(resp.metrics.rawWeightedScore,
                   IF k = 0 THEN <<0, 1>> ELSE <<n * total, k>>)

\* a raw record next to a scored one: the mean is the scored record's own
\* score, not half of it
C13_Witness ==
    /\ IsCastsOk
    /\ Len(resp.casts) = 2
    /\ \E i, j \in 1..2 :
          /\ resp.casts[i].source \in RawTags /\ resp.casts[i].cred = None
          /\ resp.casts[j].cred = 2
    /\ resp.metrics.rawWeightedScore = <<4, 1>>

\* ------------------------------------------------------------ the merge
\* the first of the hits with hash h, in the order they were taken up
FirstHit(h) == hits[CHOOSE i \in 1..Len(hits) :
                        /\ hits[i].hash = h
                        /\ \A j \in 1..(i - 1) : hits[j].hash # h]
KeptOf(h) == {i \in 1..Len(resp.casts) : resp.casts[i].hash = h}

\* C14: of the hits that share a content hash the merged output keeps a
\* single record, the first in input order, whatever the order of the
\* hits and whichever sources they come from.
C14_FirstSeenWins ==
    IsCastsOk =>
        \A h \in HashesOf(hits) :
            /\ Cardinality(KeptOf(h)) = 1
            /\ \A i \in KeptOf(h) : resp.casts[i] = FirstHit(h)

\* what the merge does keep to: the first hit of every hash is in the
\* output, and a hash a later source repeats is not added again
C14_FirstSeenIsKept ==
    IsCastsOk =>
        /\ \A h \in HashesOf(hits) : \E i \in KeptOf(h) : resp.casts[i] = FirstHit(h)
        /\ resp.handler = "legacy_casts" =>
              \A i \in 1..Len(resp.casts) :
                  resp.casts[i].source # "neo4j_search" =>
                      /\ Cardinality(KeptOf(resp.casts[i].hash)) = 1
                      /\ resp.casts[i] = FirstHit(resp.casts[i].hash)

\* one hash delivered by two sources, the earlier source's record kept
C14_TwoSourcesWitness ==
    /\ IsCastsOk
    /\ \E i, j \in 1..Len(hits) :
          i < j /\ hits[i].hash = hits[j].hash /\ hits[i].source # hits[j].source
    /\ NoDuplicateHash(resp.casts)

\* one hash delivered twice by one source, both records in the output
C14_BothKeptWitness ==
    /\ IsCastsOk
    /\ \E i, j \in 1..Len(hits) : i < j /\ hits[i].hash = hits[j].hash
    /\ \E h \in HashesOf(hits) : Cardinality(KeptOf(h)) = 2

\* -------------------------------------------------------------- the sort
NonIncreasing(casts) ==
    \A i \in 1..(Len(casts) - 1) : casts[i].timestamp >= casts[i + 1].timestamp

\* records with equal timestamps stand in the order the hits had
TiesKeepOrder(casts) ==
    \A i, j \in 1..Len(casts) :
        (i < j /\ casts[i].timestamp = casts[j].timestamp) =>
            \E a, b \in 1..Len(hits) : a < b /\ hits[a] = casts[i] /\ hits[b] = casts[j]

\* C15: for every sequence of hits, a missing or null timestamp included,
\* the request returns the casts in non-increasing timestamp order, records
\* with equal timestamps in their input order.
C15_EveryInputSorted ==
    (resp.handler \in CastHandlers /\ hits # <<>>) =>
        /\ resp.status = 200
        /\ NonIncreasing(resp.casts)
        /\ TiesKeepOrder(resp.casts)

\* what holds: the casts of a 200 response are sorted, ties in input
\* order, a missing timestamp of the document search sorting last
C15_SortedStable ==
    IsCastsOk =>
        /\ NonIncreasing(resp.casts)
        /\ TiesKeepOrder(resp.casts)
        /\ \A i \in 1..Len(resp.casts) : resp.casts[i].timestamp # None \/ Len(resp.casts) = 1

\* two different records with one timestamp, returned in input order
C15_TieWitness ==
    /\ IsCastsOk
    /\ Len(hits) = 2 /\ hits[1].timestamp = hits[2].timestamp /\ hits[1] # hits[2]
    /\ resp.casts = hits

\* a document without timestamp, returned after the dated one it preceded
C15_MissingStampWitness ==
    /\ IsModernOk
    /\ Len(hits) = 2 /\ hits[1].timestamp = EmptyStr /\ hits[2].timestamp # EmptyStr
    /\ resp.casts = <<hits[2], hits[1]>>

\* a hit without timestamp among several: the request fails
C15_NullStampWitness ==
    /\ resp.handler = "legacy_casts" /\ resp.status = 500
    /\ Len(hits) >= 2
    /\ \E i \in 1..Len(hits) : hits[i].timestamp = None

\* -------------------------------------------------------- the sanitizer
Metacharacters == {special_chars[i] : i \in 1..Len(special_chars)}
IsSeparator(c) == c \in Metacharacters \cup Whitespace

\* the positions of the characters of s that belong to a token, and the
\* n-th of them
TokenChars(s) == {i \in 1..Len(s) : ~IsSeparator(s[i])}
NthOf(S, n) == CHOOSE i \in S : Cardinality({j \in S : j < i}) = n - 1

\* out is the tokens of in, single-space separated: the token characters of
\* in, in order; neighbours in in are neighbours in out, characters that a
\* run of separators parts in in are parted by one space in out; nothing
\* before the first or after the last
IsCleaned(in, out) ==
    LET P == TokenChars(in)
        Q == {i \in 1..Len(out) : out[i] # " "}
        m == Cardinality(P)
    IN  /\ Cardinality(Q) = m
        /\ \A n \in 1..m : out[NthOf(Q, n)] = in[NthOf(P, n)]
        /\ IF m = 0 THEN out = <<>> ELSE NthOf(Q, 1) = 1 /\ NthOf(Q, m) = Len(out)
        /\ \A n \in 1..(m - 1) :
              NthOf(Q, n + 1) - NthOf(Q, n) =
                  IF NthOf(P, n + 1) = NthOf(P, n) + 1 THEN 1 ELSE 2

\* C16: clean_query_for_lucene answers every string: each of the characters
\* / \ + - & | ! ( ) { } [ ] ^ ~ * ? : " is replaced by a space and the
\* result collapsed to tokens separated by single spaces, without leading
\* or trailing space; for an empty string and for None it answers "".
C16_CleanedAndCollapsed ==
    (cleanings >= 1) =>
        /\ IsCleaned(query.chars, clean_query)
        /\ \A i \in 1..Len(clean_query) : clean_query[i] \notin Metacharacters
        /\ (query.type = "NoneType" \/ query.chars = <<>>) => clean_query = <<>>

\* a query with a leading space and a special character between two tokens
C16_Witness ==
    /\ cleanings = 1
    /\ query = StrQuery(<<" ", "a", "+", "$">>)
    /\ clean_query = <<"a", " ", "$">>

\* None was cleaned
C16_NoneWitness == cleanings = 1 /\ query = NoneQuery /\ clean_query = <<>>

\* C17 (as claimed): the sanitizer maps "$TOKEN +bullish!" to
\* "TOKEN bullish".
C17_ScenarioA ==
    (cleanings = 1 /\ query = StrQuery(ScenarioA)) =>
        clean_query = <<"T", "O", "K", "E", "N", " ", "b", "u", "l", "l", "i", "s", "h">>

\* C17 (amended): the sanitizer maps "$TOKEN +bullish!" to
\* "$TOKEN bullish": "$" is not one of its special characters.
C17_ScenarioAKeepsDollar ==
    (cleanings = 1 /\ query = StrQuery(ScenarioA)) =>
        clean_query = <<"$", "T", "O", "K", "E", "N", " ", "b", "u", "l", "l", "i", "s", "h">>

\* the query of scenario A was cleaned
C17_Witness ==
    /\ cleanings = 1 /\ query = StrQuery(ScenarioA)
    /\ Len(clean_query) = 14 /\ clean_query[1] = "$"

\* C18: sanitizing is idempotent: cleaning a cleaned query returns it
\* unchanged.
C18_Idempotent ==
    (cleanings = 2) => (clean_query = query.chars)

\* a cleaned query of two tokens went through the sanitizer again
C18_Witness ==
    /\ cleanings = 2
    /\ Len(clean_query) >= 3
    /\ \E i \in 1..Len(clean_query) : clean_query[i] = " "
    /\ clean_query = query.chars

\* ------------------------------------------------- the degenerate score
\* the request came through to the scorer with no record at all
ScoredNothing ==
    /\ resp.handler \in CastHandlers /\ resp.key_ok /\ ~QuotaExceeded
    /\ hits = <<>>
    /\ resp.handler = "legacy_casts" =>
          /\ neo4j_driver
          /\ \A i \in 1..Len(trace) : trace[i].store = "neo4j" => trace[i].ok

\* C19: for an empty record sequence the scorer returns count =
\* uniqueAuthorCount = rawScore = weightedScore = 0 and raises nothing: no
\* division by zero.
C19_EmptyScoresZero ==
    ScoredNothing =>
        /\ resp.status = 200
        /\ resp.casts = <<>>
        /\ resp.metrics.casts = 0
        /\ resp.metrics.uniqueAuthors = 0
        /\ resp.metrics.rawWeightedScore = <<0, 1>>
        /\ resp.metrics.weighted_score = <<0, 1>>
        /\ ~resp.metrics.raised

\* a search that found nothing, answered with the zero metrics
C19_Witness ==
    /\ ScoredNothing
    /\ \E i \in 1..Len(trace) : trace[i].store = "mongo" /\ trace[i].ok
    /\ resp.status = 200 /\ resp.total = 0
    /\ resp.metrics.weighted_score = <<0, 1>>

\* the same for the handler of main.py: a full-text search without rows
C19_LegacyWitness ==
    /\ ScoredNothing /\ resp.handler = "legacy_casts"
    /\ \E i \in 1..Len(trace) : trace[i].q = "fulltext" /\ trace[i].ok
    /\ resp.status = 200 /\ resp.total = 0

\* ------------------------------------------------- the usage counter
Counted == {r \in Requests : pending[r].counted}
BothInFlight == \A r \in Requests : pending[r].pc \in {"awaiting", "rejected"}

C20_UncountedWitness ==
    /\ \E r \in Requests : pending[r].pc = "done" /\ ~pending[r].counted
    /\ resp.handler = "casts" /\ resp.status = 200
    /\ queryCounter = CounterAtStart

\* ------------------------------------------------ rejections and the stores
\* C21: a request rejected as not-found leaves the store state as it was:
\* an allowlist request in check mode answered 404 because the user does not
\* exist leaves requestCount at its value from before the request.
C21_NotFoundNoEffect ==
    [][(resp'.handler # "none" /\ resp'.status = 404) =>
          (requestCount' = requestCount /\ queryCounter' = queryCounter)]_vars

\* a check-mode request answered 404 after its increment query succeeded
C21_CountedNotFoundWitness ==
    /\ resp.handler = "allowlist" /\ resp.status = 404
    /\ Len(trace) = 2 /\ trace[1].q = "increment" /\ trace[1].ok /\ trace[2].q = "check"
    /\ requestCount >= 1

\* ---------------------------------------------------------------------
\* SQLUtils.execute_query: the retry loop
\* ---------------------------------------------------------------------

\* the runs of the query the call under way has made
Executions == Len(SelectSeq(trace, LAMBDA o : o.store = "postgres"))
EveryRunFailed == \A i \in 1..Len(trace) : ~trace[i].ok

\* C22: SQLUtils.execute_query terminates for every query and every
\* failure pattern: it runs the query at most max_retries + 1 times, it
\* raises exactly when all of these runs have failed, execute_postgres_query
\* then answers the empty list, and every call that was entered is answered.
C22_RetryTerminates ==
    /\ [](/\ Executions <= MaxRetries + 1
          /\ attempt.state = "raised" => (Executions = MaxRetries + 1 /\ EveryRunFailed)
          /\ (attempt.state = "running" /\ Executions = MaxRetries + 1) => EveryRunFailed
          /\ (attempt.state = "answered" /\ Executions > 0 /\ EveryRunFailed)
                => (Executions = MaxRetries + 1 /\ attempt.result = <<>>))
    /\ (attempt.state = "running" ~> attempt.state = "answered")

\* a call whose every run failed, answered with the empty list although
\* the query has rows
C22_Witness ==
    /\ attempt.state = "answered"
    /\ Executions = MaxRetries + 1
    /\ EveryRunFailed
    /\ attempt.n > 0
    /\ attempt.result = <<>>

\* ---------------------------------------------------------------------
\* app/api/endpoints/leaderboard.py
\* ---------------------------------------------------------------------
MaxEntries == 2
Snapshots == {1, 2}
LbFids == {None, 1, 2}

\* contents of neynar.verifications the runs start from
VerificationTables ==
    {<<>>,
     <<[fid |-> 1, address |-> "0xa"]>>,
     <<[fid |-> 2, address |-> "0xc"], [fid |-> 1, address |-> "0xa"],
       [fid |-> 1, address |-> "0xb"]>>}

\* a query either runs at once or fails on every attempt
LbFails == {0, MaxRetries + 1}

\* rows of the snapshot with run_timestamp t, ORDER BY rank ASC
SnapshotRows(t) ==
    IF t \in 1..Len(table)
    THEN [i \in 1..Len(table[t]) |-> [run_timestamp |-> t, rank |-> i, fid |-> table[t][i]]]
    ELSE <<>>

\* SELECT * ... ORDER BY run_timestamp DESC, rank ASC
RECURSIVE RowsDownFrom(_)
RowsDownFrom(t) == IF t = 0 THEN <<>> ELSE SnapshotRows(t) \o RowsDownFrom(t - 1)

\* SELECT MAX(run_timestamp): one row, NULL for an empty table
get_latest_run_timestamp(fails) ==
    LET r == execute_postgres_query("max_timestamp", fails,
                 <<[max_timestamp |-> IF table = <<>> THEN None ELSE Len(table)]>>)
    IN  [value |-> IF r.rows # <<>> THEN r.rows[1].max_timestamp ELSE None, ops |-> r.ops]

\* list(set(fids)), one query, rows grouped by fid in the order returned
get_verified_addresses_batch(fids, fails) ==
    IF fids = <<>> THEN [map |-> <<>>, ops |-> <<>>, calls |-> 0]
    ELSE LET unique_fids == {fids[i] : i \in 1..Len(fids)}
             r == execute_postgres_query("addresses", fails,
                      SelectSeq(verifications, LAMBDA v : v.fid \in unique_fids))
             of(f) == SelectSeq(r.rows, LAMBDA v : v.fid = f)
         IN  [map |-> [f \in {r.rows[i].fid : i \in 1..Len(r.rows)} |->
                         [i \in 1..Len(of(f)) |-> of(f)[i].address]],
              ops |-> r.ops, calls |-> 1]

\* fid_to_addresses.get(fid, [])
DictGet(d, k) == IF k \in DOMAIN d THEN d[k] ELSE <<>>

\* a lookup for every entry instead of one for the list
enrich_with_addresses_PerEntry(data, fails) ==
    LET fids == SelectSeq([i \in 1..Len(data) |-> data[i].fid], Truthy)
        b == get_verified_addresses_batch(fids, fails)
    IN  [data |-> [i \in 1..Len(data) |->
                     IF Truthy(data[i].fid)
                     THEN data[i] @@ [addresses |-> DictGet(b.map, data[i].fid)]
                     ELSE data[i]],
         ops |-> b.ops, calls |-> Len(fids)]

\* enrich_with_addresses, the list branch
enrich_with_addresses(data, fails) ==
    LET fids == SelectSeq([i \in 1..Len(data) |-> data[i].fid], Truthy)
    IN  IF fids = <<>> THEN [data |-> data, ops |-> <<>>, calls |-> 0]
        ELSE LET b == get_verified_addresses_batch(fids, fails)
             IN  [data |-> [i \in 1..Len(data) |->
                              IF Truthy(data[i].fid)
                              THEN data[i] @@ [addresses |-> DictGet(b.map, data[i].fid)]
                              ELSE data[i]],
                  ops |-> b.ops, calls |-> b.calls]

\* sorted(list(set(run_timestamp of the rows)), reverse=True)
RECURSIVE TimestampsDownFrom(_, _)
TimestampsDownFrom(t, rows) ==
    IF t = 0 THEN <<>>
    ELSE (IF \E i \in 1..Len(rows) : rows[i].run_timestamp = t THEN <<t>> ELSE <<>>)
         \o TimestampsDownFrom(t - 1, rows)

LbAnswer(mode, status) ==
    [NoLeaderboardRequest EXCEPT !.pc = "answered", !.mode = mode, !.status = status]

\* the row query reading whatever snapshot is newest when it runs
leaderboard_rows_WhateverIsNewest(mode, max_timestamp, fails) ==
    execute_postgres_query("rows", fails, SnapshotRows(Len(table)))

\* the row query: the whole table, or WHERE run_timestamp = :max_timestamp
leaderboard_rows(mode, max_timestamp, fails) ==
    execute_postgres_query("rows", fails,
        IF mode = "all" THEN RowsDownFrom(Len(table)) ELSE SnapshotRows(max_timestamp))

\* get_leaderboard from a row query to its answer: 404 for no rows, else
\* the enriched rows
leaderboard_reply(mode, max_timestamp, fails, addr_fails) ==
    LET r == leaderboard_rows(mode, max_timestamp, fails)
    IN  IF r.rows = <<>> THEN [lb |-> LbAnswer(mode, 404), ops |-> r.ops]
        ELSE LET e == enrich_with_addresses(r.rows, addr_fails)
             IN  [lb |-> [LbAnswer(mode, 200) EXCEPT
                            !.data = e.data, !.calls = e.calls,
                            !.max_timestamp = max_timestamp,
                            !.run_timestamp = max_timestamp,
                            !.run_timestamps =
                                IF mode = "all" THEN TimestampsDownFrom(Len(table), e.data)
                                ELSE <<>>],
                  ops |-> r.ops \o e.ops]

\* another client of the database writes the table: it starts a snapshot
\* with a later run_timestamp or adds a row to the newest one
InsertRow ==
    /\ lb.pc # "answered"
    /\ \E f \in LbFids :
          \/ /\ Len(table) + 1 \in Snapshots
             /\ table' = Append(table, <<f>>)
          \/ /\ table # <<>>
             /\ Len(table[Len(table)]) < MaxEntries
             /\ table' = [table EXCEPT ![Len(table)] = Append(@, f)]
    /\ UNCHANGED <<app, trace, beside_leaderboard, verifications, lb>>

\* get_leaderboard up to its first query result: the key check, the whole
\* of the run_timestamp=all branch, or the MAX(run_timestamp) query
GetLeaderboard ==
    /\ lb.pc = "idle"
    /\ \E key_ok \in BOOLEAN : \E mode \in Only(key_ok, {"all", "latest"}, "latest") :
       \E fails \in Only(key_ok /\ sql_utils, LbFails, 0) :
       \E addr_fails \in Only(key_ok /\ sql_utils /\ mode = "all" /\ fails = 0, LbFails, 0) :
          IF ~key_ok
          THEN /\ lb' = LbAnswer(mode, 401)
               /\ trace' = <<>>
          ELSE IF mode = "all"
          THEN LET a == leaderboard_reply(mode, None, fails, addr_fails)
               IN  /\ lb' = a.lb
                   /\ trace' = a.ops
          ELSE LET m == get_latest_run_timestamp(fails)
               IN  /\ lb' = IF m.value = None THEN LbAnswer(mode, 404)
                            ELSE [NoLeaderboardRequest EXCEPT
                                    !.pc = "has_max", !.mode = mode, !.max_timestamp = m.value]
                   /\ trace' = m.ops
    /\ UNCHANGED <<app, beside_leaderboard, table, verifications>>

\* the latest branch from its row query on
LatestRows ==
    /\ lb.pc = "has_max"
    /\ \E fails \in Only(sql_utils, LbFails, 0) :
       \E addr_fails \in Only(sql_utils /\ fails = 0, LbFails, 0) :
          LET a == leaderboard_reply(lb.mode, lb.max_timestamp, fails, addr_fails)
          IN  /\ lb' = a.lb
              /\ trace' = trace \o a.ops
    /\ UNCHANGED <<app, beside_leaderboard, table, verifications>>

LeaderboardDeliver ==
    /\ lb.pc = "answered"
    /\ lb' = NoLeaderboardRequest
    /\ trace' = <<>>
    /\ UNCHANGED <<app, beside_leaderboard, table, verifications>>

InitLeaderboard ==
    /\ neo4j_driver = FALSE
    /\ async_db = FALSE
    /\ sql_utils \in BOOLEAN
    /\ fidIsStr = FALSE
    /\ queryCounter = CounterAtStart
    /\ requestCount = 0
    /\ resp = NoResp
    /\ trace = <<>>
    /\ hits = <<>>
    /\ NothingCleaned
    /\ NonePending
    /\ attempt = NoAttempt
    /\ promo = NoPromotersRequest
    /\ reactions = NoReactions
    /\ conn = NoConnectionsRequest
    /\ paging = NoPaging
    /\ BotNotStarted
    /\ table = <<>>
    /\ verifications \in VerificationTables
    /\ lb = NoLeaderboardRequest

NextLeaderboard ==
    \/ InsertRow
    \/ GetLeaderboard
    \/ LatestRows
    \/ LeaderboardDeliver

SpecLeaderboard == InitLeaderboard /\ [][NextLeaderboard]_vars

\* the entry names a fid (`if entry.get('fid')`)
HasFid(entry) == Truthy(entry.fid)

\* the addresses the stored verifications hold for a fid, in row order
StoredAddresses(f) ==
    LET of == SelectSeq(verifications, LAMBDA v : v.fid = f)
    IN  [i \in 1..Len(of) |-> of[i].address]

AddressOps == SelectSeq(trace, LAMBDA o : o.q = "addresses")
AddressesReturned == AddressOps # <<>> /\ AddressOps[Len(AddressOps)].ok

C23_NoFidWitness ==
    /\ lb.pc = "answered" /\ lb.status = 200 /\ lb.calls = 0
    /\ AddressOps = <<>>

\* C27: in latest-snapshot mode every row of a get_leaderboard response
\* has the run_timestamp the response names, also when a newer snapshot
\* was written between the MAX(run_timestamp) query and the row query;
\* rows of two snapshots are never mixed.
C27_OneSnapshotPerResponse ==
    (lb.pc = "answered" /\ lb.status = 200 /\ lb.mode = "latest") =>
        /\ lb.run_timestamp # None
        /\ \A i \in 1..Len(lb.data) : lb.data[i].run_timestamp = lb.run_timestamp

\* a latest-mode answer given while the table already holds a newer
\* snapshot than the one answered: the writer came between the queries
C27_Witness ==
    /\ lb.pc = "answered" /\ lb.status = 200 /\ lb.mode = "latest"
    /\ Len(table) > lb.run_timestamp
    /\ Len(lb.data) = MaxEntries

\* ---------------------------------------------------------------------
\* app/api/endpoints/miniapps.py: the key-promoters endpoint
\* ---------------------------------------------------------------------
MaxPromoters == 25
MaxRecentCasts == 3
MaxFound == 2

\* a cast as either search returns it, reduced to hash and author
PromoCast(h, a) == [hash |-> h, author_fid |-> a]
PromoCasts == {PromoCast(h, a) : h \in {None, 1, 2}, a \in {None, 1, 2, 3}}

\* more authors than the answer holds, one cast each
CrowdFids == 101..(101 + MaxPromoters + 1)
CrowdCasts == [i \in 1..(MaxPromoters + 2) |-> PromoCast(100 + i, 100 + i)]

\* one author with more casts than an entry holds, and a second author
BusyCasts ==
    [i \in 1..(MaxRecentCasts + 2) |-> PromoCast(10 + i, IF i = 2 THEN 2 ELSE 1)]

\* what the two searches can return
NeynarFinds == SeqsUpTo(PromoCasts, MaxFound) \cup {CrowdCasts, BusyCasts}
\* documents of the casts collection name their author in authorFid
MongoDoc(c) == [hash |-> c.hash, authorFid |-> c.author_fid]
MongoFinds ==
    {[i \in 1..Len(s) |-> MongoDoc(s[i])] : s \in SeqsUpTo(PromoCasts, 1) \cup {BusyCasts}}

\* the Warpcast accounts: 1 with a score, 2 with a null score, 3 without
\* an account node, the crowd with scores 0..3 by fid
PromoterAccounts == {1, 2} \cup CrowdFids
PromoterCred(f) == IF f = 1 THEN 2 ELSE IF f = 2 THEN None ELSE f % 4

\* the elements of a sequence at the indices of idx, in order
AtIndices(s, idx) ==
    [n \in 1..Cardinality(idx) |->
        s[CHOOSE i \in idx : Cardinality({j \in idx : j < i}) = n - 1]]

\* {c["hash"]: c for c in casts if c.get("hash")}.values(): a key keeps
\* the place of its first cast and the value of its last
dedupe_by_hash(casts) ==
    LET first == {i \in 1..Len(casts) :
                    /\ Truthy(casts[i].hash)
                    /\ \A j \in 1..(i - 1) : casts[j].hash # casts[i].hash}
        last(i) == CHOOSE j \in i..Len(casts) :
                      /\ casts[j].hash = casts[i].hash
                      /\ \A k \in (j + 1)..Len(casts) : casts[k].hash # casts[i].hash
        places == AtIndices([i \in 1..Len(casts) |-> i], first)
    IN  [n \in 1..Len(places) |-> casts[last(places[n])]]

\* the profile query: the accounts whose fid is among $fids
promoter_rows(fids) ==
    LET found == {f \in fids : f \in PromoterAccounts}
        byFid == [n \in 1..Cardinality(found) |->
                    CHOOSE f \in found : Cardinality({g \in found : g < f}) = n - 1]
    IN  [n \in 1..Len(byFid) |-> [fid |-> byFid[n], fcCredScore |-> PromoterCred(byFid[n])]]

\* enrichment = {int(r["fid"]): dict(r) for r in records}
promoter_enrichment(records) ==
    [f \in {records[i].fid : i \in 1..Len(records)} |->
        (CHOOSE i \in 1..Len(records) : records[i].fid = f)]

\* x or 0
OrZero(x) == IF Truthy(x) THEN x ELSE 0

\* the loop building the promoter objects: one promoter per enriched
\* author, in the order of the authors' first casts, each with its first
\* casts up to the limit
build_promoters(casts, records) ==
    LET enrichment == promoter_enrichment(records)
        fid(i) == IF Truthy(casts[i].author_fid) THEN casts[i].author_fid ELSE None
        counted == {i \in 1..Len(casts) : fid(i) # None /\ fid(i) \in DOMAIN enrichment}
        opens == {i \in counted : \A j \in counted : j < i => fid(j) # fid(i)}
        places == AtIndices([i \in 1..Len(casts) |-> i], opens)
        hashes(f) == AtIndices([i \in 1..Len(casts) |-> casts[i].hash],
                               {i \in counted : fid(i) = f})
    IN  [n \in 1..Len(places) |->
            [fid |-> fid(places[n]),
             fcCredScore |-> OrZero(records[enrichment[fid(places[n])]].fcCredScore),
             recentCasts |-> SubSeq(hashes(fid(places[n])), 1,
                                IF Len(hashes(fid(places[n]))) < MaxRecentCasts
                                THEN Len(hashes(fid(places[n]))) ELSE MaxRecentCasts)]]

\* promoters.sort(key=fcCredScore, reverse=True): stable, descending.  An
\* element comes after those of higher score and the earlier ones of its
\* own score
SortByScore(s) ==
    LET before(i) == {j \in 1..Len(s) :
                        \/ s[j].fcCredScore > s[i].fcCredScore
                        \/ (s[j].fcCredScore = s[i].fcCredScore /\ j < i)}
    IN  [n \in 1..Len(s) |-> s[CHOOSE i \in 1..Len(s) : Cardinality(before(i)) = n - 1]]

FirstN(s, n) == SubSeq(s, 1, IF Len(s) < n THEN Len(s) ELSE n)

\* cutting the list before sorting it
top_promoters_CutFirst(promoters) == SortByScore(FirstN(promoters, MaxPromoters))

\* sort and limit
top_promoters(promoters) == FirstN(SortByScore(promoters), MaxPromoters)

PromoAnswer(status) == [NoPromotersRequest EXCEPT !.pc = "answered", !.status = status]

\* retrieve_miniapp_key_promoters.  The Neynar search has its own
\* try/except; nothing guards the Mongo search.
retrieve_miniapp_key_promoters(key_ok, name_ok, neynar_ok, neynar, mongo_ok, mongo, cypher_ok) ==
    IF ~key_ok THEN [promo |-> PromoAnswer(401), ops |-> <<>>]
    ELSE IF ~name_ok THEN [promo |-> PromoAnswer(400), ops |-> <<>>]
    ELSE LET n == Op("neynar", "search", neynar_ok)
             m == search_mongo_casts(mongo_ok, mongo, 100)
         IN  IF m.raised THEN [promo |-> PromoAnswer(500), ops |-> <<n>> \o m.ops]
             ELSE LET raw == (IF neynar_ok THEN neynar ELSE <<>>)
                             \o [i \in 1..Len(m.rows) |->
                                   PromoCast(m.rows[i].hash, m.rows[i].authorFid)]
                      casts == dedupe_by_hash(raw)
                      fids == {casts[i].author_fid : i \in 1..Len(casts)} \ {None}
                  IN  IF fids = {}
                      THEN [promo |-> [PromoAnswer(200) EXCEPT !.casts = casts],
                            ops |-> <<n>> \o m.ops]
                      ELSE LET r == execute_cypher("promoter_profiles", cypher_ok,
                                                   promoter_rows(fids))
                           IN  [promo |-> [PromoAnswer(200) EXCEPT
                                             !.casts = casts,
                                             !.enrichment = r.rows,
                                             !.promoters =
                                                top_promoters(
                                                   build_promoters(casts, r.rows))],
                                ops |-> <<n>> \o m.ops \o r.ops]

KeyPromoters ==
    /\ promo.pc = "idle"
    /\ \E key_ok \in BOOLEAN : \E name_ok \in Only(key_ok, BOOLEAN, TRUE) :
       \E neynar_ok \in Only(key_ok /\ name_ok, BOOLEAN, TRUE) :
       \E neynar \in Only(key_ok /\ name_ok /\ neynar_ok, NeynarFinds, <<>>) :
       \E mongo_ok \in Only(key_ok /\ name_ok /\ async_db, BOOLEAN, TRUE) :
       \E mongo \in Only(key_ok /\ name_ok /\ async_db /\ mongo_ok, MongoFinds, <<>>) :
       \E cypher_ok \in Only(key_ok /\ name_ok /\ neo4j_driver, BOOLEAN, TRUE) :
          LET a == retrieve_miniapp_key_promoters(key_ok, name_ok, neynar_ok, neynar,
                                                  mongo_ok, mongo, cypher_ok)
          IN  /\ promo' = a.promo
              /\ trace' = a.ops
    /\ UNCHANGED <<app, beside_promoters>>

PromotersDeliver ==
    /\ promo.pc = "answered"
    /\ promo' = NoPromotersRequest
    /\ trace' = <<>>
    /\ UNCHANGED <<app, beside_promoters>>

InitPromoters ==
    /\ neo4j_driver \in BOOLEAN
    /\ async_db \in BOOLEAN
    /\ sql_utils = FALSE
    /\ fidIsStr = FALSE
    /\ queryCounter = CounterAtStart
    /\ requestCount = 0
    /\ resp = NoResp
    /\ trace = <<>>
    /\ hits = <<>>
    /\ NothingCleaned
    /\ NonePending
    /\ NoneAside

NextPromoters ==
    \/ KeyPromoters
    \/ PromotersDeliver

SpecPromoters == InitPromoters /\ [][NextPromoters]_vars

\* the authors of the kept casts that the profile query found
EnrichedAuthors ==
    {promo.enrichment[i].fid : i \in 1..Len(promo.enrichment)}
        \cap {promo.casts[i].author_fid : i \in 1..Len(promo.casts)}
EnrichedScore(f) ==
    OrZero(promo.enrichment[CHOOSE i \in 1..Len(promo.enrichment) :
                                promo.enrichment[i].fid = f].fcCredScore)
ReturnedFids == {promo.promoters[i].fid : i \in 1..Len(promo.promoters)}

\* C24: the key-promoters answer holds at most 25 promoters in
\* non-increasing fcCredScore order, no fid twice, each with at most 3
\* recentCasts, and no enriched author left out has a strictly higher
\* fcCredScore than a returned one.
C24_TopPromoters ==
    (promo.pc = "answered" /\ promo.status = 200) =>
        LET ps == promo.promoters
        IN  /\ Len(ps) <= MaxPromoters
            /\ \A i \in 1..(Len(ps) - 1) : ps[i].fcCredScore >= ps[i + 1].fcCredScore
            /\ \A i, j \in 1..Len(ps) : ps[i].fid = ps[j].fid => i = j
            /\ \A i \in 1..Len(ps) : Len(ps[i].recentCasts) <= MaxRecentCasts
            /\ ReturnedFids \subseteq EnrichedAuthors
            /\ \A f \in EnrichedAuthors \ ReturnedFids :
                  \A i \in 1..Len(ps) : EnrichedScore(f) <= ps[i].fcCredScore

\* a full answer with enriched authors left out and scores that differ
C24_Witness ==
    /\ promo.pc = "answered" /\ promo.status = 200
    /\ Len(promo.promoters) = MaxPromoters
    /\ EnrichedAuthors \ ReturnedFids # {}
    /\ promo.promoters[1].fcCredScore > promo.promoters[MaxPromoters].fcCredScore

\* an author with more kept casts than an entry holds
C24_BusyWitness ==
    /\ promo.pc = "answered" /\ promo.status = 200
    /\ \E i \in 1..Len(promo.promoters) :
          /\ Len(promo.promoters[i].recentCasts) = MaxRecentCasts
          /\ Cardinality({k \in 1..Len(promo.casts) :
                            promo.casts[k].author_fid = promo.promoters[i].fid})
                > MaxRecentCasts

\* ---------------------------------------------------------------------
\* app/api/endpoints/farcaster_connections.py
\* ---------------------------------------------------------------------
MaxConn == 2
ConnFids == {1, 2}
ConnScores == {1, 5}

\* what either query can return: rows of fid and score, ORDER BY score DESC
ConnResults ==
    {s \in SeqsUpTo([fid : ConnFids, score : ConnScores], MaxConn) :
        \A i \in 1..(Len(s) - 1) : s[i].score >= s[i + 1].score}

\* request.categories after split(","): the pieces as sent, <<>> for None
\* and for the empty string
RawCategories == {"attention", "influence", "mutuals", " Mutuals", "other"}
CategoryInputs ==
    {<<>>, <<"attention", "influence", "mutuals">>}
        \cup {<<a>> : a \in RawCategories}
        \cup {<<a, b>> : a, b \in RawCategories \ {"mutuals"}}

\* c.strip().lower()
StripLower(c) == IF c = " Mutuals" THEN "mutuals" ELSE c
AllCategories == <<"attention", "influence", "mutuals">>
valid_categories == {"attention", "influence", "mutuals"}

parse_categories(raw) ==
    IF raw = <<>> THEN AllCategories
    ELSE LET categories == SelectSeq([i \in 1..Len(raw) |-> StripLower(raw[i])],
                                     LAMBDA c : c \in valid_categories)
         IN  IF categories = <<>> THEN AllCategories ELSE categories

In(c, categories) == \E i \in 1..Len(categories) : categories[i] = c

\* attention_map / influence_map as list(map.values()): a fid keeps the
\* place of its first row and the entry of its last, rank = idx + 1
connection_map(rows) ==
    LET first == {i \in 1..Len(rows) : \A j \in 1..(i - 1) : rows[j].fid # rows[i].fid}
        last(i) == CHOOSE j \in i..Len(rows) :
                      /\ rows[j].fid = rows[i].fid
                      /\ \A k \in (j + 1)..Len(rows) : rows[k].fid # rows[i].fid
        places == AtIndices([i \in 1..Len(rows) |-> i], first)
    IN  [n \in 1..Len(places) |->
            [fid |-> rows[places[n]].fid, rank |-> last(places[n]),
             score |-> rows[last(places[n])].score, is_mutual |-> FALSE]]

MapKeys(m) == {m[i].fid : i \in 1..Len(m)}
MapGet(m, f) == m[CHOOSE i \in 1..Len(m) : m[i].fid = f]

\* for fid in mutual_fids: map[fid]["is_mutual"] = True
tag_mutuals(m, mutual_fids) ==
    [i \in 1..Len(m) |-> [m[i] EXCEPT !.is_mutual = m[i].fid \in mutual_fids]]

\* mutuals_list before sorting; a set of small integers is walked in
\* ascending order
mutuals_list(attention_map, influence_map, mutual_fids) ==
    LET fids == [n \in 1..Cardinality(mutual_fids) |->
                    CHOOSE f \in mutual_fids :
                        Cardinality({g \in mutual_fids : g < f}) = n - 1]
    IN  [n \in 1..Len(fids) |->
            [fid |-> fids[n],
             combined_score |-> MapGet(attention_map, fids[n]).score
                                  + MapGet(influence_map, fids[n]).score,
             attention_score |-> MapGet(attention_map, fids[n]).score,
             influence_score |-> MapGet(influence_map, fids[n]).score,
             rank |-> 0]]

\* mutuals_list.sort(key=combined_score, reverse=True): stable, descending
SortByCombined(s) ==
    LET before(i) == {j \in 1..Len(s) :
                        \/ s[j].combined_score > s[i].combined_score
                        \/ (s[j].combined_score = s[i].combined_score /\ j < i)}
    IN  [n \in 1..Len(s) |-> s[CHOOSE i \in 1..Len(s) : Cardinality(before(i)) = n - 1]]

\* ranks given in the order the list was built
rank_mutuals_Unsorted(list) == [n \in 1..Len(list) |-> [list[n] EXCEPT !.rank = n]]

\* sort by combined_score DESC and assign ranks
rank_mutuals(list) ==
    LET sorted == SortByCombined(list)
    IN  [n \in 1..Len(sorted) |-> [sorted[n] EXCEPT !.rank = n]]

ConnAnswer(status) == [NoConnectionsRequest EXCEPT !.pc = "answered", !.status = status]

get_farcaster_connections(key_ok, raw, att_fails, inf_fails) ==
    IF ~key_ok THEN [conn |-> ConnAnswer(401), ops |-> <<>>]
    ELSE LET categories == parse_categories(raw)
             need_attention == In("attention", categories) \/ In("mutuals", categories)
             need_influence == In("influence", categories) \/ In("mutuals", categories)
             a == IF need_attention
                  THEN execute_postgres_query("attention", att_fails, reactions.attention)
                  ELSE [rows |-> <<>>, ops |-> <<>>, raised |-> FALSE]
             i == IF need_influence
                  THEN execute_postgres_query("influence", inf_fails, reactions.influence)
                  ELSE [rows |-> <<>>, ops |-> <<>>, raised |-> FALSE]
             mutual_fids == MapKeys(connection_map(a.rows)) \cap MapKeys(connection_map(i.rows))
             attention_map == tag_mutuals(connection_map(a.rows), mutual_fids)
             influence_map == tag_mutuals(connection_map(i.rows), mutual_fids)
         IN  [conn |-> [ConnAnswer(200) EXCEPT
                          !.categories = categories,
                          !.keys = {c \in valid_categories : In(c, categories)},
                          !.attention = IF In("attention", categories)
                                        THEN attention_map ELSE <<>>,
                          !.influence = IF In("influence", categories)
                                        THEN influence_map ELSE <<>>,
                          !.mutuals = IF In("mutuals", categories)
                                      THEN rank_mutuals(mutuals_list(attention_map,
                                                           influence_map, mutual_fids))
                                      ELSE <<>>],
              ops |-> a.ops \o i.ops]

Needs(raw, c) == In(c, parse_categories(raw)) \/ In("mutuals", parse_categories(raw))

GetConnections ==
    /\ conn.pc = "idle"
    /\ \E key_ok \in BOOLEAN : \E raw \in Only(key_ok, CategoryInputs, <<>>) :
       \E att_fails \in Only(key_ok /\ sql_utils /\ Needs(raw, "attention"), LbFails, 0) :
       \E inf_fails \in Only(key_ok /\ sql_utils /\ Needs(raw, "influence"), LbFails, 0) :
          LET r == get_farcaster_connections(key_ok, raw, att_fails, inf_fails)
          IN  /\ conn' = r.conn
              /\ trace' = r.ops
    /\ UNCHANGED <<app, beside_connections, reactions>>

ConnectionsDeliver ==
    /\ conn.pc = "answered"
    /\ conn' = NoConnectionsRequest
    /\ trace' = <<>>
    /\ UNCHANGED <<app, beside_connections, reactions>>

InitConnections ==
    /\ neo4j_driver = FALSE
    /\ async_db = FALSE
    /\ sql_utils \in BOOLEAN
    /\ fidIsStr = FALSE
    /\ queryCounter = CounterAtStart
    /\ requestCount = 0
    /\ resp = NoResp
    /\ trace = <<>>
    /\ hits = <<>>
    /\ NothingCleaned
    /\ NonePending
    /\ attempt = NoAttempt
    /\ promo = NoPromotersRequest
    /\ table = <<>>
    /\ verifications = <<>>
    /\ lb = NoLeaderboardRequest
    /\ reactions \in [attention : ConnResults, influence : ConnResults]
    /\ conn = NoConnectionsRequest
    /\ paging = NoPaging
    /\ BotNotStarted

NextConnections ==
    \/ GetConnections
    \/ ConnectionsDeliver

SpecConnections == InitConnections /\ [][NextConnections]_vars

\* the fids of the result set a query of this request returned: none when
\* the query was not run or failed
Returned(q) ==
    IF \E i \in 1..Len(trace) : trace[i].q = q /\ trace[i].ok
    THEN {reactions[q][i].fid : i \in 1..Len(reactions[q])}
    ELSE {}
\* the score of the row the map keeps for a fid: the last one
LastScore(q, f) ==
    LET rows == reactions[q]
    IN  rows[CHOOSE i \in 1..Len(rows) :
                rows[i].fid = f /\ \A k \in (i + 1)..Len(rows) : rows[k].fid # f].score

\* C25: the mutuals list holds exactly the fids of both result sets, each
\* once, with combined_score = attention_score + influence_score, in
\* non-increasing combined_score order and with rank = 1-based position.
C25_MutualsRanked ==
    (conn.pc = "answered" /\ conn.status = 200 /\ "mutuals" \in conn.keys) =>
        LET ms == conn.mutuals
        IN  /\ {ms[i].fid : i \in 1..Len(ms)} = Returned("attention") \cap Returned("influence")
            /\ \A i, j \in 1..Len(ms) : ms[i].fid = ms[j].fid => i = j
            /\ \A i \in 1..Len(ms) :
                  /\ ms[i].attention_score = LastScore("attention", ms[i].fid)
                  /\ ms[i].influence_score = LastScore("influence", ms[i].fid)
                  /\ ms[i].combined_score = ms[i].attention_score + ms[i].influence_score
                  /\ ms[i].rank = i
            /\ \A i \in 1..(Len(ms) - 1) : ms[i].combined_score >= ms[i + 1].combined_score

\* two mutuals, the one with the larger fid ranked first
C25_Witness ==
    /\ conn.pc = "answered" /\ conn.status = 200 /\ "mutuals" \in conn.keys
    /\ Len(conn.mutuals) = 2
    /\ conn.mutuals[1].fid > conn.mutuals[2].fid
    /\ conn.mutuals[1].combined_score > conn.mutuals[2].combined_score

\* what the store holds for the user, whatever the request asks for
StoredFids(q) == {reactions[q][i].fid : i \in 1..Len(reactions[q])}
StoredMutuals == StoredFids("attention") \cap StoredFids("influence")
NoQueryFailed == sql_utils /\ \A i \in 1..Len(trace) : trace[i].ok

C28_BothAskedWitness ==
    /\ conn.pc = "answered" /\ conn.status = 200 /\ NoQueryFailed
    /\ conn.keys = {"attention", "influence"}
    /\ \E i \in 1..Len(conn.attention) :
          conn.attention[i].fid \in StoredMutuals /\ conn.attention[i].is_mutual

\* the step is an authenticated request of the casts handler whose usage
\* query succeeded
CountedStep ==
    /\ resp.handler = "none"
    /\ resp'.handler = "casts" /\ resp'.key_ok
    /\ trace' # <<>> /\ trace'[1].q = "usage" /\ trace'[1].ok

\* the request stopped at the usage check: nothing but the usage query
\* was run and the answer is an error
RejectedForQuota(r, tr) == r.status # 200 /\ Len(tr) = 1 /\ tr[1].q = "usage"

\* C26: the usage counter never decreases; every authenticated request
\* whose usage query succeeds adds one to it, also a request that is then
\* rejected for quota; and once the counter has passed the limit every
\* such request is rejected (nothing resets the counter).
C26_CounterOnlyGrows ==
    [][/\ queryCounter' >= queryCounter
       /\ CountedStep => queryCounter' = queryCounter + 1
       /\ (CountedStep /\ queryCounter >= UsageLimit) => RejectedForQuota(resp', trace')
       /\ (CountedStep /\ RejectedForQuota(resp', trace')) => queryCounter' > UsageLimit]_vars

\* a second request rejected for quota: the counter is two past the limit
C26_Witness ==
    /\ resp.handler = "casts" /\ resp.key_ok
    /\ RejectedForQuota(resp, trace) /\ trace[1].ok
    /\ queryCounter = UsageLimit + 2

\* ---------------------------------------------------------------------
\* main.py: the search-API paging loop, one call at a time
\* ---------------------------------------------------------------------
\* the answers the search API can give to one call
PagingAnswers == NeynarPages(1)

\* the handler reaches the loop: without NEYNAR_API_KEY it is skipped
StartPaging ==
    /\ paging.pc = "idle"
    /\ \E has_key \in BOOLEAN :
          paging' = [NoPaging EXCEPT !.pc = IF has_key THEN "looping" ELSE "done",
                                     !.keep_going = has_key]
    /\ UNCHANGED <<app, trace, beside_paging>>

\* one pass of `while keep_going`: the call, the answer, the decision
NeynarCall ==
    /\ paging.pc = "looping"
    /\ paging.keep_going
    /\ paging.neynar_call_count < MaxPages
    /\ \E p \in PagingAnswers :
          /\ paging' = [paging EXCEPT
                          !.keep_going = Continues(p),
                          !.neynar_call_count =
                              IF p.kind = "exception" THEN @ ELSE @ + 1,
                          !.pages = Append(@, p),
                          !.pc = IF Continues(p) THEN "looping" ELSE "done"]
          /\ trace' = Append(trace, Op("neynar", Len(paging.pages) + 1, p.kind = "ok"))
    /\ UNCHANGED <<app, beside_paging>>

\* the handler goes on with the casts collected
FinishPaging ==
    /\ paging.pc = "done"
    /\ paging' = NoPaging
    /\ trace' = <<>>
    /\ UNCHANGED <<app, beside_paging>>

InitPaging ==
    /\ neo4j_driver = TRUE
    /\ async_db = FALSE
    /\ sql_utils = FALSE
    /\ fidIsStr \in BOOLEAN
    /\ queryCounter = CounterAtStart
    /\ requestCount = 0
    /\ resp = NoResp
    /\ trace = <<>>
    /\ hits = <<>>
    /\ NothingCleaned
    /\ NonePending
    /\ NoneAside

NextPaging ==
    \/ StartPaging
    \/ NeynarCall
    \/ FinishPaging

SpecPaging == InitPaging /\ [][NextPaging]_vars

\* the three conditions of the claim on a page
AllowsNextPage(p) ==
    /\ p.kind = "ok"
    /\ p.nextCursor # None /\ p.nextCursor # EmptyStr
    /\ \A i \in 1..Len(p.casts) :
          p.casts[i].timestamp = None \/ p.casts[i].timestamp > Cutoff

\* C29: the paging loop asks for a further page only after a page that
\* came with status 200 and without an exception, carried a non-empty
\* nextCursor and held no cast at or before the cutoff; a page failing one
\* of these ends the loop at once and no page is asked for after it.
C29_PagingStops ==
    /\ \A i \in 1..(Len(paging.pages) - 1) : AllowsNextPage(paging.pages[i])
    /\ (paging.pages # <<>> /\ ~AllowsNextPage(paging.pages[Len(paging.pages)]))
          => (paging.pc = "done" /\ ~paging.keep_going)
    /\ Len(trace) = Len(paging.pages)

\* a second page was asked for and it ended the loop by a cast at the
\* cutoff although it carried a cursor
C29_Witness ==
    /\ Len(paging.pages) = 2
    /\ paging.pc = "done"
    /\ paging.pages[2].kind = "ok" /\ paging.pages[2].nextCursor # None
    /\ paging.pages[2].casts # <<>> /\ paging.pages[2].casts[1].timestamp = Cutoff

\* ---------------------------------------------------------------------
\* trading_bot.py: the trading cycle
\* ---------------------------------------------------------------------
PROFIT_TAKE_PERCENT == 20
STOP_LOSS_PERCENT == 10
MaxTrending == 2

AddressOrder == <<"0xaaa", "0xbbb">>
Addresses == {AddressOrder[i] : i \in 1..Len(AddressOrder)}
Prices == {1, 2}

\* the analyses identify_trending_tokens returns, reduced to the address
\* and whether the trading criteria hold; two symbols can give one address
Analyses == [token_address : Addresses, qualifies : BOOLEAN]
TrendingLists == SeqsUpTo(Analyses, MaxTrending)

\* what fartrader_state.json can hold when the bot starts
LoadedPositions ==
    UNION {[S -> [entry_price : Prices]] : S \in SUBSET Addresses}

\* list(token_positions.items()): the addresses held, in a fixed order
Items(S) == SelectSeq(AddressOrder, LAMBDA a : a \in S)

\* ((current_price / entry_price) - 1) * 100
TakesProfit(current_price, entry_price) ==
    100 * (current_price - entry_price) >= PROFIT_TAKE_PERCENT * entry_price
StopsLoss(current_price, entry_price) ==
    100 * (current_price - entry_price) <= (0 - STOP_LOSS_PERCENT) * entry_price

\* execute_trade: token_positions after the trade
execute_trade(token_address, side, price) ==
    IF ~TRADING_ENABLED THEN token_positions
    ELSE IF side = "buy"
    THEN [a \in DOMAIN token_positions \cup {token_address} |->
            IF a = token_address THEN [entry_price |-> price] ELSE token_positions[a]]
    ELSE IF side = "sell" /\ token_address \in DOMAIN token_positions
    THEN [a \in DOMAIN token_positions \ {token_address} |-> token_positions[a]]
    ELSE token_positions

\* a check that looks at the blacklist only
skips_BlacklistOnly(address) == address \in blacklisted_tokens

\* `if address in token_positions or address in blacklisted_tokens: continue`
skips(address) == address \in DOMAIN token_positions \/ address \in blacklisted_tokens

Did(address, what) == [address |-> address, did |-> what]

\* trading_logic is entered: manage_positions takes its copy of the items
StartCycle ==
    /\ cycle.pc = "idle"
    /\ cycle' = [NoCycle EXCEPT !.pc = "managing",
                                !.to_manage = Items(DOMAIN token_positions)]
    /\ UNCHANGED <<app, trace, beside_trading, TRADING_ENABLED, token_positions,
                   blacklisted_tokens>>

\* one pass of the loop of manage_positions
ManagePosition ==
    /\ cycle.pc = "managing"
    /\ cycle.to_manage # <<>>
    /\ LET address == Head(cycle.to_manage)
           entry_price == token_positions[address].entry_price
       IN  \E current_price \in Prices :
              LET sells == TakesProfit(current_price, entry_price)
                              \/ StopsLoss(current_price, entry_price)
              IN  /\ token_positions' =
                        IF sells THEN execute_trade(address, "sell", current_price)
                        ELSE token_positions
                  /\ cycle' = [cycle EXCEPT !.to_manage = Tail(@),
                                            !.last = Did(address, IF sells THEN "sell" ELSE "hold")]
    /\ UNCHANGED <<app, trace, beside_trading, TRADING_ENABLED, blacklisted_tokens>>

\* identify_trending_tokens returns
IdentifyTrending ==
    /\ cycle.pc = "managing"
    /\ cycle.to_manage = <<>>
    /\ \E trending \in TrendingLists :
          cycle' = [cycle EXCEPT !.pc = "evaluating", !.trending_tokens = trending]
    /\ UNCHANGED <<app, trace, beside_trading, TRADING_ENABLED, token_positions,
                   blacklisted_tokens>>

\* one pass of the loop of trading_logic over trending_tokens
EvaluateToken ==
    /\ cycle.pc = "evaluating"
    /\ cycle.trending_tokens # <<>>
    /\ LET token == Head(cycle.trending_tokens)
           address == token.token_address
       IN  \E price \in Prices :
              LET buys == ~skips(address) /\ token.qualifies
              IN  /\ token_positions' =
                        IF buys THEN execute_trade(address, "buy", price)
                        ELSE token_positions
                  /\ cycle' = [cycle EXCEPT
                                 !.trending_tokens = Tail(@),
                                 !.last = Did(address,
                                              IF skips(address) THEN "skip"
                                              ELSE IF token.qualifies THEN "buy" ELSE "pass")]
    /\ UNCHANGED <<app, trace, beside_trading, TRADING_ENABLED, blacklisted_tokens>>

\* the cycle is over; run() sleeps and starts the next one
EndCycle ==
    /\ cycle.pc = "evaluating"
    /\ cycle.trending_tokens = <<>>
    /\ cycle' = NoCycle
    /\ UNCHANGED <<app, trace, beside_trading, TRADING_ENABLED, token_positions,
                   blacklisted_tokens>>

InitTrading ==
    /\ neo4j_driver = FALSE
    /\ async_db = FALSE
    /\ sql_utils = FALSE
    /\ fidIsStr = FALSE
    /\ queryCounter = CounterAtStart
    /\ requestCount = 0
    /\ resp = NoResp
    /\ trace = <<>>
    /\ hits = <<>>
    /\ NothingCleaned
    /\ NonePending
    /\ attempt = NoAttempt
    /\ promo = NoPromotersRequest
    /\ reactions = NoReactions
    /\ conn = NoConnectionsRequest
    /\ paging = NoPaging
    /\ table = <<>>
    /\ verifications = <<>>
    /\ lb = NoLeaderboardRequest
    /\ TRADING_ENABLED \in BOOLEAN
    /\ token_positions \in LoadedPositions
    /\ blacklisted_tokens \in SUBSET Addresses
    /\ cycle = NoCycle

NextTrading ==
    \/ StartCycle
    \/ ManagePosition
    \/ IdentifyTrending
    \/ EvaluateToken
    \/ EndCycle

SpecTrading == InitTrading /\ [][NextTrading]_vars

\* C30: no step of a trading cycle opens a position for an address that
\* holds one or is blacklisted, so the entry of an open position is never
\* replaced by a second buy; and with TRADING_ENABLED false no step adds,
\* changes or removes an entry of token_positions.
C30_NoSecondBuy ==
    [][/\ \A a \in DOMAIN token_positions \cap DOMAIN token_positions' :
             token_positions'[a] = token_positions[a]
       /\ \A a \in DOMAIN token_positions' \ DOMAIN token_positions :
             a \notin blacklisted_tokens
       /\ ~TRADING_ENABLED => token_positions' = token_positions]_vars

\* with trading enabled, a token whose address holds a position and is
\* not blacklisted has just been skipped
C30_Witness ==
    /\ TRADING_ENABLED
    /\ cycle.last.did = "skip"
    /\ cycle.last.address \in DOMAIN token_positions
    /\ cycle.last.address \notin blacklisted_tokens
    /\ Cardinality(DOMAIN token_positions) = 2

\* with trading disabled, a qualifying token that is neither held nor
\* blacklisted was evaluated and nothing was opened
C30_DisabledWitness ==
    /\ ~TRADING_ENABLED
    /\ cycle.last.did = "buy"
    /\ cycle.last.address \notin DOMAIN token_positions

====
